---- MODULE Spec2Model ----
(***************************************************************************)
(* State-machine model of gitleaks-bulk (src/main.py and its backends):    *)
(* the repository entity, the per-backend cache store, reconciliation,     *)
(* the batch scheduler, the working-copy synchronization and the run's     *)
(* exit code.                                                              *)
(***************************************************************************)
EXTENDS Integers, Sequences, FiniteSets, TLC

(***************************************************************************)
(* Bounds of the model.                                                    *)
(***************************************************************************)
\* repository ids handed out by a backend are 1..MaxId
MaxId == 2
\* number of program runs in one behaviour
MaxRuns == 2
\* largest finding count the scanner reports
MaxFindings == 1
\* failures of the environment (API, git, scanner, disk, kill) in one behaviour
MaxFaults == 1
\* cloneRepo calls on one folder
MaxCalls == 3
\* repositories handed to repos_to_batches, and the largest batch size
MaxRepos == 4
MaxBatch == 5

(***************************************************************************)
(* Python values.  A dict key that is missing is Absent, the value None is *)
(* None; integer-valued and path-valued fields get markers of their own    *)
(* type.                                                                   *)
(***************************************************************************)
Absent == "<absent>"
None == "<None>"
AbsentInt == 0 - 2
NoneInt == 0 - 1
AbsentPath == <<>>
NonePath == <<"<None>">>

Fields ==
    {"type", "id", "name", "group", "group_key", "repo_key", "http_link",
     "ssh_link", "contact_name", "contact_mail", "latest_branch",
     "default_branch", "folder", "scanned", "secrets_found", "report_path"}

IntFields == {"id", "secrets_found"}
PathFields == {"folder", "report_path"}

AbsentOf(f) ==
    IF f \in IntFields THEN AbsentInt
    ELSE IF f \in PathFields THEN AbsentPath ELSE Absent

NoneOf(f) ==
    IF f \in IntFields THEN NoneInt
    ELSE IF f \in PathFields THEN NonePath ELSE None

\* `field in repo`
Has(repo, f) == repo[f] # AbsentOf(f)

\* `repo.get(field, None)` used as a truth value (None and "" are falsy)
Truthy(repo, f) == Has(repo, f) /\ repo[f] # NoneOf(f)

Ids == 1..MaxId
Backends == <<"gitlab", "bitbucket_dc">>
BackendNames == {Backends[i] : i \in 1..Len(Backends)}
Branches == {"main", "dev"}

\* a dict id -> Repo, or the Python value None
NoDict == [none |-> TRUE, m |-> <<>>]
Dict(m) == [none |-> FALSE, m |-> m]
EmptyDict == Dict(<<>>)
Keys(d) == DOMAIN d.m

(***************************************************************************)
(* data_types.Repo as the backends build it.                               *)
(***************************************************************************)
RepoName(id) == IF id = 1 THEN "r1" ELSE IF id = 2 THEN "r2" ELSE "r3"
GroupName(type) == IF type = "gitlab" THEN "grpA" ELSE "projB"

\* _backend_gitlab.fetchAllRepos: Repo(type, repo_key, id, group, name,
\* ssh_link, http_link, default_branch), every other key missing
GitlabRepo(id, default_branch) ==
    [f \in Fields |->
        CASE f = "type" -> "gitlab"
          [] f = "id" -> id
          [] f = "repo_key" -> RepoName(id)
          [] f = "group" -> GroupName("gitlab")
          [] f = "name" -> RepoName(id)
          [] f = "ssh_link" -> "ssh"
          [] f = "http_link" -> "http"
          [] f = "default_branch" -> default_branch
          [] OTHER -> AbsentOf(f)]

\* _backend_bitbucket.fetchAllRepos: every key but http_link, the
\* enrichment and scan-state keys None
BitbucketRepo(id, default_branch) ==
    [f \in Fields |->
        CASE f = "type" -> "bitbucket_dc"
          [] f = "id" -> id
          [] f = "name" -> RepoName(id)
          [] f = "group" -> GroupName("bitbucket_dc")
          [] f = "group_key" -> "PB"
          [] f = "repo_key" -> RepoName(id)
          [] f = "ssh_link" -> "ssh"
          [] f = "default_branch" -> default_branch
          [] f = "http_link" -> Absent
          [] OTHER -> NoneOf(f)]

FetchedRepo(type, id, default_branch) ==
    IF type = "gitlab" THEN GitlabRepo(id, default_branch)
    ELSE BitbucketRepo(id, default_branch)

(***************************************************************************)
(* Reconciliation: main.updateRepoInfo.                                    *)
(***************************************************************************)
ProtectedFields == {"folder", "scanned", "secrets_found", "report_path"}

\* the inner loop without its exclusion list
MergeRepo_unprotected(cur, new) ==
    [f \in Fields |-> IF Has(new, f) THEN new[f] ELSE cur[f]]

\* a variant that drops the scan state of an entity whose other fields
\* already carry new's values
MergeRepo_rescan(cur, new) ==
    IF \A f \in Fields \ ProtectedFields : Has(new, f) => cur[f] = new[f]
    THEN [f \in Fields |-> IF Has(new, f) THEN new[f] ELSE cur[f]]
    ELSE [f \in Fields |-> IF Has(new, f) /\ f \notin ProtectedFields
                           THEN new[f] ELSE cur[f]]

\* the inner loop over new[repo_id].keys()
MergeRepo(cur, new) ==
    [f \in Fields |->
        IF Has(new, f) /\ f \notin ProtectedFields THEN new[f] ELSE cur[f]]

\* current is mutated in place and returned; new = None raises
\* variants of updateRepoInfo, each departing from the code in one place
updateRepoInfo_insertonly(current, new) ==
    IF new.none THEN [raised |-> TRUE, value |-> current]
    ELSE IF current.none \/ Keys(current) = {}
    THEN [raised |-> FALSE, value |-> new]
    ELSE [raised |-> FALSE,
          value |-> Dict([i \in Keys(current) \cup Keys(new) |->
                IF i \notin Keys(current) THEN new.m[i] ELSE current.m[i]])]

updateRepoInfo_prune(current, new) ==
    IF new.none THEN [raised |-> TRUE, value |-> current]
    ELSE IF current.none \/ Keys(current) = {}
    THEN [raised |-> FALSE, value |-> new]
    ELSE [raised |-> FALSE,
          value |-> Dict([i \in Keys(new) |->
                IF i \notin Keys(current) THEN new.m[i]
                ELSE MergeRepo(current.m[i], new.m[i])])]

updateRepoInfo_keepempty(current, new) ==
    IF new.none THEN [raised |-> TRUE, value |-> current]
    ELSE IF current.none THEN [raised |-> FALSE, value |-> new]
    ELSE [raised |-> FALSE,
          value |-> Dict([i \in Keys(current) |->
                IF i \notin Keys(new) THEN current.m[i]
                ELSE MergeRepo(current.m[i], new.m[i])])]

updateRepoInfo_lenient(current, new) ==
    IF new.none THEN [raised |-> FALSE, value |-> current]
    ELSE IF current.none \/ Keys(current) = {}
    THEN [raised |-> FALSE, value |-> new]
    ELSE [raised |-> FALSE,
          value |-> Dict([i \in Keys(current) \cup Keys(new) |->
                IF i \notin Keys(current) THEN new.m[i]
                ELSE IF i \notin Keys(new) THEN current.m[i]
                ELSE MergeRepo(current.m[i], new.m[i])])]

updateRepoInfo(current, new) ==
    IF new.none THEN [raised |-> TRUE, value |-> current]
    ELSE IF current.none \/ Keys(current) = {}
    THEN [raised |-> FALSE, value |-> new]
    ELSE [raised |-> FALSE,
          value |-> Dict([i \in Keys(current) \cup Keys(new) |->
                IF i \notin Keys(current) THEN new.m[i]
                ELSE IF i \notin Keys(new) THEN current.m[i]
                ELSE MergeRepo(current.m[i], new.m[i])])]

(***************************************************************************)
(* Cache store: main.readFile / main.writeFile.  A file is absent, a       *)
(* complete YAML document {data_version, data}, or a truncated document.   *)
(***************************************************************************)
data_version == 1

NoFile == [kind |-> "absent", ver |-> 0, data |-> <<>>]
PartialFile == [kind |-> "partial", ver |-> 0, data |-> <<>>]
YamlFile(ver, data) == [kind |-> "yaml", ver |-> ver, data |-> data]

\* readFile without the comparison of data_version
readFile_anyversion(file) ==
    IF file.kind = "yaml"
    THEN [raised |-> FALSE, value |-> Dict(file.data)]
    ELSE [raised |-> TRUE, value |-> NoDict]

\* a readFile that never hands out the stored mapping
readFile_nocache(file) ==
    IF file.kind = "yaml"
    THEN [raised |-> FALSE, value |-> NoDict]
    ELSE [raised |-> TRUE, value |-> NoDict]

\* open() raises on a missing file, yaml.safe_load raises (or yields a
\* document without data_version) on a truncated one; a complete document
\* is returned only when its data_version is the engine's
readFile(file) ==
    IF file.kind = "yaml"
    THEN [raised |-> FALSE,
          value |-> IF file.ver = data_version THEN Dict(file.data) ELSE NoDict]
    ELSE [raised |-> TRUE, value |-> NoDict]

\* open(path, "w") truncates the target, then yaml.dump streams into it
WriteOutcomes == {"ok", "open_fails", "dump_fails"}

writeFile(object, old, outcome) ==
    CASE outcome = "ok" ->
            [raised |-> FALSE, file |-> YamlFile(data_version, object)]
      [] outcome = "open_fails" -> [raised |-> TRUE, file |-> old]
      [] OTHER -> [raised |-> TRUE, file |-> PartialFile]

\* a persistState that writes all of cache['repos'] to the backend's file
persistState_unfiltered(repos, backend_type, old, outcome) ==
    writeFile(repos, old, outcome)

\* main.persistState: the slice of cache['repos'] of one backend type
persistState(repos, backend_type, old, outcome) ==
    LET ks == {i \in DOMAIN repos : repos[i]["type"] = backend_type}
    IN  writeFile([i \in ks |-> repos[i]], old, outcome)

(***************************************************************************)
(* Enrichment: main.enrichRepoData over VcsBackend.enrichRepo.             *)
(***************************************************************************)
Folder(repo) == <<repo["type"], repo["group"], repo["name"]>>

\* what the hosting API answers about a repository's branches:
\* latest = most recently committed branch, default = branch flagged default
ApiAnswers ==
    {[latest |-> None, default |-> None]}
        \cup {[latest |-> b, default |-> "main"] : b \in Branches}

\* ok: the API answers; raise: the API call fails with a message;
\* raise_noargs: it fails with an exception constructed without arguments
EnrichOutcomes == {"ok", "raise", "raise_noargs"}

Contact(ans) == IF ans.latest = None THEN None ELSE "dev1"

\* GitlabBackend.enrichRepo: http_get is outside any try; on success
\* contact_mail, contact_name and latest_branch are assigned
GitlabEnrich(repo, outcome, ans) ==
    IF outcome = "ok"
    THEN [raised |-> FALSE, noargs |-> FALSE,
          repo |-> [repo EXCEPT !["contact_mail"] = Contact(ans),
                                !["contact_name"] = Contact(ans),
                                !["latest_branch"] = ans.latest]]
    ELSE [raised |-> TRUE, noargs |-> (outcome = "raise_noargs"), repo |-> repo]

\* BitbucketBackend.enrichRepo: the API loop is inside try/except, the four
\* fields are assigned from the locals afterwards, whatever happened
BitbucketEnrich(repo, outcome, ans) ==
    LET a == IF outcome = "ok" THEN ans ELSE [latest |-> None, default |-> None]
    IN  [raised |-> FALSE, noargs |-> FALSE,
         repo |-> [repo EXCEPT !["contact_mail"] = Contact(a),
                               !["contact_name"] = Contact(a),
                               !["default_branch"] = a.default,
                               !["latest_branch"] = a.latest]]

enrichRepo(repo, outcome, ans) ==
    IF repo["type"] = "gitlab" THEN GitlabEnrich(repo, outcome, ans)
    ELSE BitbucketEnrich(repo, outcome, ans)

\* main.enrichRepoData: folder is assigned first; an exception of the
\* backend is printed with e.args[0] and the repo returned, so an exception
\* without arguments makes the handler itself raise (IndexError)
enrichRepoData(repo, outcome, ans) ==
    LET r0 == [repo EXCEPT !["folder"] = Folder(repo)]
        e == enrichRepo(r0, outcome, ans)
    IN  IF ~e.raised THEN [raised |-> FALSE, repo |-> e.repo]
        ELSE [raised |-> e.noargs, repo |-> r0]

(***************************************************************************)
(* Working copies and main.cloneRepo.  A folder is absent, a plain folder  *)
(* without .git, or a git repository with a remote origin (or none), a     *)
(* checked-out branch, local heads and a work tree holding the fetched     *)
(* content of one branch (or nothing).                                     *)
(***************************************************************************)
NoFolder ==
    [state |-> "absent", origin |-> None, active |-> None, heads |-> {},
     tree |-> None]

\* the branch name HEAD points at after `git init` (init.defaultBranch)
InitBranches == {"master", "main"}

GitOutcomes == {"ok", "fetch_fails", "checkout_fails", "reset_fails"}

\* target_branch = branch if branch else latest_branch if scan_last_branch
\*                 else default_branch
TargetBranch(repo, branch, scan_last_branch) ==
    IF branch # None THEN branch
    ELSE IF scan_last_branch THEN repo["latest_branch"]
    ELSE repo["default_branch"]

\* the remote has the branch and the network call goes through
FetchWorks(target, git) == target \in Branches /\ git # "fetch_fails"

\* a first clone that stops after the fetch: HEAD stays where git init put it
FirstClone_nocheckout(repo, target, w, git, initb) ==
    [raised |-> FALSE,
     wc |-> [state |-> "git", origin |-> repo["http_link"], active |-> initb,
             heads |-> {}, tree |-> None],
     ops |-> <<"init", "remote", "fetch">>, error |-> "none"]

\* the else arm: makedirs, git init, remote add, shallow fetch, checkout -b
FirstClone(repo, target, w, git, initb) ==
    LET w1 == [state |-> "git", origin |-> None, active |-> initb,
               heads |-> {}, tree |-> None]
        w2 == [w1 EXCEPT !.origin = repo["http_link"]]
    IN  IF ~Has(repo, "http_link")
        THEN [raised |-> TRUE, wc |-> w1, ops |-> <<"init">>, error |-> "clone"]
        ELSE IF ~FetchWorks(target, git)
        THEN [raised |-> TRUE, wc |-> w2, ops |-> <<"init", "remote", "fetch">>,
              error |-> "clone"]
        ELSE IF git = "checkout_fails"
        THEN [raised |-> TRUE, wc |-> w2,
              ops |-> <<"init", "remote", "fetch", "checkout">>,
              error |-> "clone"]
        ELSE [raised |-> FALSE,
              wc |-> [w2 EXCEPT !.active = target, !.heads = {target},
                                !.tree = target],
              ops |-> <<"init", "remote", "fetch", "checkout">>,
              error |-> "none"]

\* an update arm that, with update disabled, never touches the folder
SwitchBranch_neverswitch(repo, target, update_repos, w, git) ==
    IF ~update_repos
    THEN [raised |-> FALSE, wc |-> w, ops |-> <<>>, error |-> "none"]
    ELSE IF w.origin = None
    THEN [raised |-> TRUE, wc |-> w, ops |-> <<>>, error |-> "no_origin"]
    ELSE IF ~Has(repo, "http_link")
    THEN [raised |-> TRUE, wc |-> w, ops |-> <<>>, error |-> "keyerror"]
    ELSE IF w.origin # repo["http_link"]
    THEN [raised |-> TRUE, wc |-> w, ops |-> <<>>, error |-> "origin"]
    ELSE IF ~FetchWorks(target, git)
    THEN [raised |-> TRUE, wc |-> w, ops |-> <<"fetch">>, error |-> "fetch"]
    ELSE IF git = "checkout_fails"
    THEN [raised |-> TRUE, wc |-> w, ops |-> <<"fetch", "checkout">>,
          error |-> "reset"]
    ELSE [raised |-> (git = "reset_fails"),
          wc |-> [w EXCEPT !.active = target,
                           !.heads = @ \cup {target},
                           !.tree = target],
          ops |-> <<"fetch", "checkout", "reset">>,
          error |-> IF git = "reset_fails" THEN "reset" ELSE "none"]

\* an update arm that goes on to checkout and reset after a failed fetch
SwitchBranch_fetchignored(repo, target, update_repos, w, git) ==
    IF ~update_repos /\ w.active = target
    THEN [raised |-> FALSE, wc |-> w, ops |-> <<>>, error |-> "none"]
    ELSE IF w.origin = None
    THEN [raised |-> TRUE, wc |-> w, ops |-> <<>>, error |-> "no_origin"]
    ELSE IF ~Has(repo, "http_link")
    THEN [raised |-> TRUE, wc |-> w, ops |-> <<>>, error |-> "keyerror"]
    ELSE IF w.origin # repo["http_link"]
    THEN [raised |-> TRUE, wc |-> w, ops |-> <<>>, error |-> "origin"]
    ELSE [raised |-> ~FetchWorks(target, git),
          wc |-> [w EXCEPT !.active = target,
                           !.heads = @ \cup {target},
                           !.tree = target],
          ops |-> <<"fetch", "checkout", "reset">>,
          error |-> IF FetchWorks(target, git) THEN "none" ELSE "fetch"]

\* an existing git repository: the no-op test, the origin test, fetch,
\* checkout and reset.  error names the raise
SwitchBranch(repo, target, update_repos, w, git) ==
    IF ~update_repos /\ w.active = target
    THEN [raised |-> FALSE, wc |-> w, ops |-> <<>>, error |-> "none"]
    ELSE IF w.origin = None
    THEN [raised |-> TRUE, wc |-> w, ops |-> <<>>, error |-> "no_origin"]
    ELSE IF ~Has(repo, "http_link")
    THEN [raised |-> TRUE, wc |-> w, ops |-> <<>>, error |-> "keyerror"]
    ELSE IF w.origin # repo["http_link"]
    THEN [raised |-> TRUE, wc |-> w, ops |-> <<>>, error |-> "origin"]
    ELSE IF ~FetchWorks(target, git)
    THEN [raised |-> TRUE, wc |-> w, ops |-> <<"fetch">>, error |-> "fetch"]
    ELSE IF git = "checkout_fails"
    THEN [raised |-> TRUE, wc |-> w, ops |-> <<"fetch", "checkout">>,
          error |-> "reset"]
    ELSE [raised |-> (git = "reset_fails"),
          wc |-> [w EXCEPT !.active = target,
                           !.heads = @ \cup {target},
                           !.tree = target],
          ops |-> <<"fetch", "checkout", "reset">>,
          error |-> IF git = "reset_fails" THEN "reset" ELSE "none"]

\* an update arm that replaces a folder without .git by a fresh clone
UpdateClone_autodelete(repo, target, update_repos, w, git) ==
    IF w.state = "nogit"
    THEN FirstClone(repo, target, NoFolder, git, "master")
    ELSE SwitchBranch(repo, target, update_repos, w, git)

\* the `if os.path.exists(folder)` arm: a folder without .git raises, the
\* message naming the folder (as the origin message does)
UpdateClone(repo, target, update_repos, w, git) ==
    IF w.state = "nogit"
    THEN [raised |-> TRUE, wc |-> w, ops |-> <<>>, error |-> "nogit"]
    ELSE SwitchBranch(repo, target, update_repos, w, git)

\* the try block of cloneRepo
CloneTry(repo, branch, update_repos, scan_last_branch, w, git, initb) ==
    IF ~Truthy(repo, "default_branch")
    THEN [raised |-> TRUE, wc |-> w, ops |-> <<>>, error |-> "no_default_branch"]
    ELSE IF branch = None /\ scan_last_branch /\ ~Has(repo, "latest_branch")
    THEN [raised |-> TRUE, wc |-> w, ops |-> <<>>, error |-> "keyerror"]
    ELSE LET target == TargetBranch(repo, branch, scan_last_branch)
         IN  IF w.state # "absent"
             THEN UpdateClone(repo, target, update_repos, w, git)
             ELSE FirstClone(repo, target, w, git, initb)

\* main.create_askpass_script: one more helper script in the temp folder
create_askpass_script(scripts) == scripts + 1

\* cloneRepo whose finally clause runs on the success path only
cloneRepo_nofinally(repo, branch, update_repos, scan_last_branch, w, git, initb, scripts) ==
    LET created == create_askpass_script(scripts)
        r == CloneTry(repo, branch, update_repos, scan_last_branch, w, git, initb)
    IN  [raised |-> r.raised, wc |-> r.wc, ops |-> r.ops, error |-> r.error,
         scripts |-> IF r.raised THEN created ELSE created - 1, git |-> git]

\* cloneRepo: the helper script is created before the try block and
\* unlinked in its finally clause; scripts counts the helper scripts on disk,
\* git is how the git commands of the call went
cloneRepo(repo, branch, update_repos, scan_last_branch, w, git, initb, scripts) ==
    LET created == create_askpass_script(scripts)
        r == CloneTry(repo, branch, update_repos, scan_last_branch, w, git, initb)
    IN  [raised |-> r.raised, wc |-> r.wc, ops |-> r.ops, error |-> r.error,
         scripts |-> created - 1, git |-> git]

(***************************************************************************)
(* main.gitleaksScanRepo: the scanner's exit code decides the outcome.     *)
(***************************************************************************)
ScannerExits == {0, 3, 1}

ReportPath(repo) == <<"reports", repo["type"], repo["group"], repo["name"]>>

\* dirty is the dirty_repos dict's key set; track = dirty_repos is not None
gitleaksScanRepo(repo, branch, w, code, num_findings, dirty, track) ==
    IF w.state = "absent"
    THEN [raised |-> TRUE, ran |-> FALSE, repo |-> repo, dirty |-> dirty]
    ELSE IF code = 3
    THEN [raised |-> FALSE, ran |-> TRUE,
          repo |-> [repo EXCEPT !["secrets_found"] = num_findings,
                                !["report_path"] = ReportPath(repo),
                                !["scanned"] = branch],
          dirty |-> IF track THEN dirty \cup {repo["id"]} ELSE dirty]
    ELSE IF code = 0
    THEN [raised |-> FALSE, ran |-> TRUE,
          repo |-> [repo EXCEPT !["secrets_found"] = 0,
                                !["report_path"] = NonePath,
                                !["scanned"] = branch],
          dirty |-> dirty]
    ELSE [raised |-> TRUE, ran |-> TRUE, repo |-> repo, dirty |-> dirty]

(***************************************************************************)
(* main.repos_to_batches over the ordered ids of the filtered dict.        *)
(***************************************************************************)
RECURSIVE BatchLoop(_, _, _, _)
BatchLoop(rest, batch, batches, size) ==
    IF rest = <<>>
    THEN IF Len(batch) > 0 THEN Append(batches, batch) ELSE batches
    ELSE LET b == Append(batch, Head(rest))
         IN  IF Len(b) = size
             THEN BatchLoop(Tail(rest), <<>>, Append(batches, b), size)
             ELSE BatchLoop(Tail(rest), b, batches, size)

\* a partition that forgets the batch left over after the loop
repos_to_batches_nolast(repos, size) ==
    IF size = 0 THEN <<repos>>
    ELSE BatchLoop(SubSeq(repos, 1, (Len(repos) \div size) * size), <<>>, <<>>,
                   size)

repos_to_batches(repos, size) ==
    IF size = 0 THEN <<repos>> ELSE BatchLoop(repos, <<>>, <<>>, size)

(***************************************************************************)
(* main.checkRepoInFilterSet.  A configured pattern is the set of strings  *)
(* re.search finds it in (ignoring case), or an invalid expression.        *)
(***************************************************************************)
\* set: the config value is not None; empty: it is the string ""
NoPattern == [set |-> FALSE, empty |-> FALSE, valid |-> TRUE, hits |-> {}]
Pattern(hits) == [set |-> TRUE, empty |-> FALSE, valid |-> TRUE, hits |-> hits]
BadPattern == [set |-> TRUE, empty |-> FALSE, valid |-> FALSE, hits |-> {}]

\* the group and repository names the backends hand out
Names == {GroupName(t) : t \in BackendNames} \cup {RepoName(i) : i \in Ids}

\* the pattern "": not None, false as a condition, found in every string
EmptyPattern == [set |-> TRUE, empty |-> TRUE, valid |-> TRUE, hits |-> Names]

\* `if pattern:`
Given(p) == p.set /\ ~p.empty

\* re.search(p, s, re.IGNORECASE): "error" for an invalid expression
Search(p, s) == IF ~p.valid THEN "error" ELSE IF s \in p.hits THEN "hit" ELSE "miss"

\* the filter whose second test in each arm is evaluated even when the first
\* one fails
checkRepoInFilterSet_either(cfg, repo) ==
    IF ~cfg.grouprepofilter.set /\ ~cfg.repofilter.set /\ ~cfg.groupfilter.set
    THEN "in"
    ELSE IF Given(cfg.grouprepofilter)
    THEN IF Search(cfg.grouprepofilter, repo["group"]) = "hit"
            /\ Search(cfg.grouprepofilter, repo["name"]) = "hit"
         THEN "in" ELSE "out"
    ELSE IF (~cfg.groupfilter.set
                \/ Search(cfg.groupfilter, repo["group"]) = "hit")
            \/ (~cfg.repofilter.set
                \/ Search(cfg.repofilter, repo["name"]) = "hit")
         THEN "in" ELSE "out"

\* result: "in", "out", or "error" when re.search raised; `or` and the
\* nested `if` evaluate their second search only when the first one allows
checkRepoInFilterSet(cfg, repo) ==
    IF ~cfg.grouprepofilter.set /\ ~cfg.repofilter.set /\ ~cfg.groupfilter.set
    THEN "in"
    ELSE IF Given(cfg.grouprepofilter)
    THEN LET g == Search(cfg.grouprepofilter, repo["group"])
             n == Search(cfg.grouprepofilter, repo["name"])
         IN  IF g = "error" THEN "error"
             ELSE IF g = "hit" THEN "in"
             ELSE IF n = "hit" THEN "in" ELSE "out"
    ELSE LET g == IF cfg.groupfilter.set
                  THEN Search(cfg.groupfilter, repo["group"]) ELSE "hit"
             n == IF cfg.repofilter.set
                  THEN Search(cfg.repofilter, repo["name"]) ELSE "hit"
         IN  IF g = "error" THEN "error"
             ELSE IF g = "miss" THEN "out"
             ELSE IF n = "error" THEN "error"
             ELSE IF n = "hit" THEN "in" ELSE "out"

\* main.repos_in_filterset over the dict in insertion order
RECURSIVE FilterLoop(_, _, _)
FilterLoop(cfg, repos, ids) ==
    IF ids = <<>> THEN <<>>
    ELSE IF checkRepoInFilterSet(cfg, repos[Head(ids)]) = "in"
         THEN <<Head(ids)>> \o FilterLoop(cfg, repos, Tail(ids))
         ELSE FilterLoop(cfg, repos, Tail(ids))

repos_in_filterset(cfg, repos, ids) ==
    IF \E k \in 1..Len(ids) : checkRepoInFilterSet(cfg, repos[ids[k]]) = "error"
    THEN [raised |-> TRUE, ids |-> <<>>]
    ELSE [raised |-> FALSE, ids |-> FilterLoop(cfg, repos, ids)]

(***************************************************************************)
(* The command line (main.getinfo) as the model draws it.                  *)
(***************************************************************************)
Config(bc, upd, scan, force, noclone, slb, upr, inter, bs, creds) ==
    [backends_chosen |-> bc, updateinfo |-> upd, scan_gitleaks |-> scan,
     force_scan |-> force, no_clone |-> noclone, scan_last_branch |-> slb,
     update_repos |-> upr, interactive |-> inter, batch_size |-> bs,
     groupfilter |-> NoPattern, repofilter |-> NoPattern,
     grouprepofilter |-> NoPattern,
     \* the chosen backends without URL or token (creds: none / all of them)
     missing |-> IF creds THEN {} ELSE {bc[k] : k \in 1..Len(bc)},
     executive_report |-> FALSE]

\* the defaults of getinfo: scan, clone, update, most recent branch
DefaultConfig(bc) ==
    Config(bc, FALSE, TRUE, FALSE, FALSE, TRUE, TRUE, FALSE, 1, TRUE)

Configs ==
    \* every combination of the flags the scan decision reads
    {Config(<<"gitlab">>, FALSE, scan, force, FALSE, slb, TRUE, FALSE, 1, TRUE) :
        scan \in BOOLEAN, force \in BOOLEAN, slb \in BOOLEAN}
    \* --noclone, with and without --force
    \cup {Config(<<"gitlab">>, FALSE, TRUE, force, TRUE, TRUE, TRUE, FALSE, 1, TRUE) :
            force \in BOOLEAN}
    \* several backends, with and without --updateinfo, batching disabled
    \cup {Config(bc, upd, TRUE, FALSE, FALSE, FALSE, TRUE, FALSE, 0, TRUE) :
            bc \in {<<"gitlab", "bitbucket_dc">>, <<"bitbucket_dc">>},
            upd \in BOOLEAN}
    \cup {Config(<<"gitlab">>, TRUE, TRUE, FALSE, FALSE, TRUE, TRUE, FALSE, 1, TRUE)}
    \* --interactive, --no_clone_update, missing credentials
    \cup {Config(<<"gitlab">>, FALSE, TRUE, FALSE, FALSE, TRUE, TRUE, TRUE, 1, TRUE),
          Config(<<"gitlab">>, FALSE, TRUE, FALSE, FALSE, TRUE, FALSE, FALSE, 1, TRUE),
          Config(<<"gitlab">>, FALSE, TRUE, FALSE, FALSE, TRUE, TRUE, FALSE, 1, FALSE)}

FolderSet ==
    {<<t, GroupName(t), RepoName(i)>> : t \in BackendNames, i \in Ids}

(***************************************************************************)
(* State.                                                                  *)
(***************************************************************************)
VARIABLES
    pc,           \* where main is: idle, getData, main, interactive, batches, finish
    runs,         \* program runs started so far
    config,       \* the run's config dict
    bidx,         \* getData: index into backends_chosen
    files,        \* the cache file of each backend
    repos,        \* cache['repos']: the merged dict id -> Repo
    order,        \* insertion order of that dict
    batches,      \* the batches of the run (ids)
    pos,          \* repositories of the batches the loop has passed
    dirty_repos,  \* keys of dirty_repos
    bar,          \* progress bar position
    wc,           \* the working copy in each folder
    fetched,      \* backends whose fetchAllRepos was called in this run
    exit,         \* how the last run ended
    last,         \* what the last pass of the process_batch loop did
    done_now,     \* ids whose scan completed in this run
    done_prev,    \* <<type, id, branch>> scanned by the last, interrupted run
    faults,       \* failures of the environment so far
    found,        \* ids for which the scanner exited 3 in this run
    askpass,      \* credential helper scripts in the temp folder
    probed,       \* backends whose setup() went to the network in this run
    current, new, result,  \* reconciliation inputs and output
    verdict,      \* what checkRepoInFilterSet answered
    report        \* the rows of the executive report written last

vars ==
    <<pc, runs, config, bidx, files, repos, order, batches, pos, dirty_repos,
      bar, wc, fetched, exit, last, done_now, done_prev, faults, found,
      askpass, probed, current, new, result, verdict, report>>

runVars ==
    <<pc, runs, config, bidx, files, repos, order, batches, pos, dirty_repos,
      bar, wc, fetched, exit, last, done_now, done_prev, faults, found,
      askpass, probed>>

mergeVars == <<current, new, result, verdict, report>>

NoExit == [code |-> 0 - 1, why |-> "none"]
Exit(code, why) == [code |-> code, why |-> why]

NoLast ==
    [id |-> 0, type |-> None, target |-> Absent, pre_scanned |-> Absent,
     sync |-> "none", scanner |-> "none", persist |-> "none", ops |-> <<>>,
     prior_fail |-> FALSE, scripts |-> 0, error |-> "none", git |-> "none"]

\* a repository as a pass of process_batch leaves it in the cache: fetched,
\* enriched, scanned on its latest branch with the scanner exiting `code`
ProcessedRepo(t, id, latest, code, n) ==
    LET en == enrichRepoData(FetchedRepo(t, id, "main"), "ok",
                             [latest |-> latest, default |-> "main"]).repo
    IN  gitleaksScanRepo(en, latest, [NoFolder EXCEPT !.state = "git"], code, n,
                         {}, FALSE).repo

\* a cache file left by an earlier program version
StaleFile(t) == YamlFile(0, (1 :> ProcessedRepo(t, 1, "main", 0, 0)))

RunInit ==
    /\ pc = "idle"
    /\ runs = 0
    /\ config = DefaultConfig(<<"gitlab">>)
    /\ bidx = 1
    /\ files \in [BackendNames -> {NoFile}]
                    \cup {[t \in BackendNames |-> StaleFile(t)]}
    /\ repos = <<>>
    /\ order = <<>>
    /\ batches = <<>>
    /\ pos = 0
    /\ dirty_repos = {}
    /\ bar = 0
    /\ wc = [f \in FolderSet |-> NoFolder]
    /\ fetched = {}
    /\ exit = NoExit
    /\ last = NoLast
    /\ done_now = {}
    /\ done_prev = {}
    /\ faults = 0
    /\ found = {}
    /\ askpass = 0
    /\ probed = {}

NoAgain == [done |-> FALSE, raised |-> FALSE, value |-> NoDict]

NoResult ==
    [state |-> "none", raised |-> FALSE, value |-> NoDict, current |-> NoDict,
     again |-> NoAgain]

MergeIdle ==
    /\ current = NoDict
    /\ new = NoDict
    /\ result = NoResult
    /\ verdict = "none"
    /\ report = <<>>

Init == RunInit /\ MergeIdle

(***************************************************************************)
(* Helpers of the actions.                                                 *)
(***************************************************************************)
RECURSIVE Flat(_)
Flat(bs) == IF bs = <<>> THEN <<>> ELSE Head(bs) \o Flat(Tail(bs))

\* repos.update(data): values replaced by key, new keys appended in order
RECURSIVE AppendNew(_, _)
AppendNew(ord, ids) ==
    IF ids = {} THEN ord
    ELSE LET i == CHOOSE x \in ids : \A y \in ids : x <= y
         IN  AppendNew(IF \E k \in 1..Len(ord) : ord[k] = i THEN ord
                       ELSE Append(ord, i), ids \ {i})

Update(rs, data) ==
    [i \in DOMAIN rs \cup DOMAIN data |->
        IF i \in DOMAIN data THEN data[i] ELSE rs[i]]

\* VcsBackend.fetchAllRepos: the API fails (or reports no project at all,
\* exit(1) / raise), or answers with the repositories 1..k it has, the
\* newest of which may have no default branch; GitLab may answer with none
\* left after dropping archived and personal projects
FetchAnswers(t) ==
    {Dict([i \in 1..k |-> FetchedRepo(t, i, IF i = k THEN db ELSE "main")]) :
        k \in {x \in 0..MaxId : x # 0 \/ t = "gitlab"}, db \in {"main", None}}

ScanState(repo) ==
    <<repo["scanned"], repo["secrets_found"], repo["report_path"]>>

DonePrev(rs, ids) == {<<rs[i]["type"], i, rs[i]["scanned"]>> : i \in ids}

HasOp(ops, x) == \E k \in 1..Len(ops) : ops[k] = x

\* the git failures that can occur among the commands a call reaches
GitChoices(okops) ==
    {g \in GitOutcomes :
        \/ g = "ok"
        \/ g = "fetch_fails" /\ HasOp(okops, "fetch")
        \/ g = "checkout_fails" /\ HasOp(okops, "checkout")
        \/ g = "reset_fails" /\ HasOp(okops, "reset")}

InitChoices(okops) ==
    IF HasOp(okops, "init") THEN InitBranches ELSE {"master"}

\* the environment may fail only while the behaviour's budget lasts
Left(used) == MaxFaults - faults - used
MayFail(all, good, used) == IF Left(used) > 0 THEN all ELSE good
Fault(failed) == IF failed THEN 1 ELSE 0

NoAnswer == [latest |-> None, default |-> None]

EndRun(code, why) ==
    /\ pc' = "idle"
    /\ exit' = Exit(code, why)

(***************************************************************************)
(* main(): getinfo and checkSetup.  Every run of a behaviour is given the  *)
(* same command line.                                                      *)
(***************************************************************************)
\* getinfo's validation: --group_repo_filter excludes the other two filters
FilterConflict(cfg) ==
    Given(cfg.grouprepofilter) /\ (Given(cfg.repofilter) \/ Given(cfg.groupfilter))

\* main.backendSetupData: one backend after the other, the URL and token
\* test (sys.exit(1)) and then setup(), which connects and probes the API;
\* failing is the position of the backend whose probe fails (0: none)
RECURSIVE SetupLoop(_, _, _, _)
SetupLoop(cfg, k, failing, done) ==
    LET bc == cfg.backends_chosen
    IN  IF k > Len(bc) THEN [end |-> "ok", probed |-> done]
        ELSE IF bc[k] \in cfg.missing THEN [end |-> "config", probed |-> done]
        ELSE IF failing = k
        THEN [end |-> "setup", probed |-> done \cup {bc[k]}]
        ELSE SetupLoop(cfg, k + 1, failing, done \cup {bc[k]})

backendSetupData(cfg, failing) == SetupLoop(cfg, 1, failing, {})

\* cmdlines: the command lines the first run of a behaviour is given.  The
\* whole validation block is skipped for --executive_report, and main turns
\* to the report right after checkSetup
StartWith(cmdlines) ==
    /\ pc = "idle"
    /\ runs < MaxRuns
    /\ runs' = runs + 1
    /\ \E cfg \in IF runs = 0 THEN cmdlines ELSE {config} :
       \E failing \in MayFail(0..Len(cfg.backends_chosen), {0}, 0) :
        LET su == backendSetupData(cfg, failing)
        IN
        /\ config' = IF cfg.executive_report THEN cfg
                     ELSE [cfg EXCEPT !.force_scan = @ \/ cfg.interactive]
        /\ faults' = faults + Fault(su.end = "setup")
        /\ probed' = su.probed
        /\ IF su.end = "config"
           THEN EndRun(1, "config")
           ELSE IF su.end = "setup"
           THEN EndRun(1, "setup")
           ELSE IF cfg.executive_report
           THEN pc' = "report" /\ exit' = NoExit
           ELSE IF FilterConflict(cfg)
           THEN EndRun(1, "config")
           ELSE pc' = "getData" /\ exit' = NoExit
    /\ bidx' = 1
    /\ repos' = <<>>
    /\ order' = <<>>
    /\ batches' = <<>>
    /\ pos' = 0
    /\ dirty_repos' = {}
    /\ bar' = 0
    /\ fetched' = {}
    /\ last' = NoLast
    /\ done_now' = {}
    /\ found' = {}
    /\ UNCHANGED <<files, wc, done_prev, askpass,
                   mergeVars>>

StartRun == StartWith(Configs)

(***************************************************************************)
(* main.getData, one pass of its loop over backends_chosen.                *)
(***************************************************************************)
GetDataMerge(data) ==
    /\ repos' = Update(repos, data.m)
    /\ order' = AppendNew(order, DOMAIN data.m)
    /\ exit' = exit
    /\ IF bidx < Len(config.backends_chosen)
       THEN bidx' = bidx + 1 /\ pc' = "getData"
       ELSE bidx' = bidx /\ pc' = "main"

getData ==
    /\ pc = "getData"
    /\ LET t == config.backends_chosen[bidx]
           rd == readFile(files[t])
           data == IF rd.raised THEN EmptyDict ELSE rd.value
       IN  IF ~(data.none \/ Keys(data) = {} \/ config.updateinfo)
           THEN /\ GetDataMerge(data)
                /\ UNCHANGED <<files, fetched, faults>>
           ELSE /\ fetched' = fetched \cup {t}
                /\ \/ /\ Left(0) > 0
                      /\ faults' = faults + 1
                      /\ EndRun(1, "fetch")
                      /\ UNCHANGED <<files, repos, order, bidx>>
                   \/ \E new_data \in FetchAnswers(t) :
                      \E wo \in MayFail(WriteOutcomes, {"ok"}, 0) :
                         LET merged == IF config.updateinfo
                                       THEN updateRepoInfo(data, new_data).value
                                       ELSE new_data
                             w == writeFile(merged.m, files[t], wo)
                         IN  /\ files' = [files EXCEPT ![t] = w.file]
                             /\ faults' = faults + Fault(w.raised)
                             /\ IF w.raised
                                THEN /\ EndRun(1, "write")
                                     /\ UNCHANGED <<repos, order, bidx>>
                                ELSE GetDataMerge(merged)
    /\ UNCHANGED <<probed, runs, config, batches, pos, dirty_repos, bar, wc, last,
                   done_now, done_prev, found, askpass,
                   mergeVars>>

(***************************************************************************)
(* main(): after getData, up to the batches.                               *)
(***************************************************************************)
mainPlan ==
    /\ pc = "main"
    /\ IF Len(order) = 0
       THEN EndRun(1, "nodata") /\ UNCHANGED batches
       ELSE IF config.interactive
       THEN pc' = "interactive" /\ UNCHANGED <<exit, batches>>
       ELSE LET f == repos_in_filterset(config, repos, order)
            IN  IF f.raised
                THEN EndRun(1, "config") /\ UNCHANGED batches
                ELSE \E proceed \in BOOLEAN :
                      IF ~proceed
                      THEN EndRun(0, "declined") /\ UNCHANGED batches
                      ELSE /\ batches' = repos_to_batches(f.ids, config.batch_size)
                           /\ pc' = "batches"
                           /\ exit' = exit
    /\ UNCHANGED <<probed, runs, config, bidx, files, repos, order, pos, dirty_repos,
                   bar, wc, fetched, last, done_now, done_prev, faults, found,
                   askpass,
                   mergeVars>>

(***************************************************************************)
(* main.process_batch, one pass of its loop: enrichRepoData outside the    *)
(* try; cloneRepo, the scan decision, gitleaksScanRepo and persistRepoData *)
(* inside it.                                                              *)
(***************************************************************************)
\* a pass that does not call cloneRepo
NoClone == [ops |-> <<>>, scripts |-> askpass, error |-> "none", git |-> "none"]

\* target: the branch the pass aims at, Absent when the field is missing;
\* prior_fail: persistRepoData raised in an earlier pass of this run
\* cl: what the pass's cloneRepo call returned (NoClone when there was none)
LastOf(repo, target, sync, scanner, persist, cl) ==
    [id |-> repo["id"], type |-> repo["type"], target |-> target,
     pre_scanned |-> repo["scanned"], sync |-> sync, scanner |-> scanner,
     persist |-> persist, ops |-> cl.ops,
     prior_fail |-> (last.prior_fail \/ last.persist = "raised"),
     scripts |-> cl.scripts, error |-> cl.error, git |-> cl.git]

Found(lastrec) ==
    IF lastrec.scanner = "exit3" THEN found \cup {lastrec.id} ELSE found

\* the pass ends and the loop goes on: `continue` after a caught exception,
\* or the end of the body
PassEnds(id, repo, w, dirty, fs, lastrec, scanned_now, nf) ==
    /\ askpass' = lastrec.scripts
    /\ repos' = [repos EXCEPT ![id] = repo]
    /\ wc' = [wc EXCEPT ![Folder(repo)] = w]
    /\ dirty_repos' = dirty
    /\ files' = fs
    /\ last' = lastrec
    /\ pos' = pos + 1
    /\ bar' = bar + 1
    /\ pc' = "batches"
    /\ done_now' = IF scanned_now THEN done_now \cup {id} ELSE done_now
    /\ faults' = faults + nf
    /\ found' = Found(lastrec)
    /\ UNCHANGED <<exit, done_prev>>

\* an exception leaves process_batch and main's handler exits with 1
PassEscapes(id, repo, lastrec, nf) ==
    /\ askpass' = lastrec.scripts
    /\ repos' = [repos EXCEPT ![id] = repo]
    /\ last' = lastrec
    /\ EndRun(1, "process_batch")
    /\ done_prev' = {}
    /\ faults' = faults + nf
    /\ UNCHANGED <<wc, dirty_repos, files, pos, bar, done_now, found>>

\* the process is killed while writeFile has the cache file open
PassKilled(id, repo, w, dirty, t, lastrec, nf) ==
    /\ askpass' = lastrec.scripts
    /\ repos' = [repos EXCEPT ![id] = repo]
    /\ wc' = [wc EXCEPT ![Folder(repo)] = w]
    /\ dirty_repos' = dirty
    /\ files' = [files EXCEPT ![t] = PartialFile]
    /\ last' = lastrec
    /\ pc' = "idle"
    /\ exit' = Exit(0 - 1, "killed")
    /\ done_prev' = DonePrev(repos, done_now)
    /\ faults' = faults + nf
    /\ found' = Found(lastrec)
    /\ UNCHANGED <<pos, bar, done_now>>

\* main.persistRepoData at the end of the try body
PersistPass(id, repo, w, dirty, target, sync, scanner, cl, scanned_now, nf) ==
    LET rs == [repos EXCEPT ![id] = repo]
        t == repo["type"]
        pre == repos[id]
    IN  \E wo \in MayFail(WriteOutcomes \cup {"killed"}, {"ok"}, nf) :
          IF wo = "killed"
          THEN PassKilled(id, repo, w, dirty, t,
                          LastOf(pre, target, sync, scanner, "killed", cl),
                          nf + 1)
          ELSE LET p == persistState(rs, t, files[t], wo)
               IN  PassEnds(id, repo, w, dirty,
                            [files EXCEPT ![t] = p.file],
                            LastOf(pre, target, sync, scanner,
                                   IF p.raised THEN "raised" ELSE "ok", cl),
                            scanned_now, nf + Fault(p.raised))

\* the decision without its force_scan disjunct
ScanNeeded_unforced(cfg, repo, target) ==
    ~Has(repo, "scanned") \/ repo["scanned"] # target

\* force_scan or "scanned" not in repo or repo["scanned"] != target_branch
ScanNeeded(cfg, repo, target) ==
    cfg.force_scan \/ ~Has(repo, "scanned") \/ repo["scanned"] # target

\* the scan decision and gitleaksScanRepo
ScanPass(id, repo, w, sync, cl, nf) ==
    LET pre == repos[id]
    IN  IF ~(config.scan_gitleaks \/ config.force_scan)
        THEN PersistPass(id, repo, w, dirty_repos,
                         TargetBranch(repo, None, config.scan_last_branch),
                         sync, "off", cl, FALSE, nf)
        ELSE IF config.scan_last_branch /\ ~Has(repo, "latest_branch")
        THEN PassEnds(id, repo, w, dirty_repos, files,
                      LastOf(pre, Absent, sync, "keyerror", "none", cl), FALSE,
                      nf)
        ELSE LET target == TargetBranch(repo, None, config.scan_last_branch)
             IN  IF ~ScanNeeded(config, repo, target)
                 THEN PersistPass(id, repo, w, dirty_repos, target, sync,
                                  "skipped", cl, FALSE, nf)
                 ELSE \E code \in IF w.state = "absent" THEN {1}
                                  ELSE MayFail(ScannerExits, {0, 3}, nf) :
                      \E n \in IF code = 3 THEN 0..MaxFindings ELSE {0} :
                        LET sc == gitleaksScanRepo(repo, target, w, code, n,
                                                   dirty_repos, TRUE)
                        IN  IF sc.raised
                            THEN PassEnds(id, repo, w, dirty_repos, files,
                                          LastOf(pre, target, sync,
                                                 IF sc.ran THEN "failed"
                                                 ELSE "no_folder",
                                                 "none", cl), FALSE,
                                          nf + Fault(sc.ran))
                            ELSE PersistPass(id, sc.repo, w, sc.dirty, target,
                                             sync,
                                             IF code = 3 THEN "exit3" ELSE "exit0",
                                             cl, TRUE, nf)

\* a pass that goes on to the scan decision after cloneRepo raised
process_repo_scanafterfail ==
    /\ pc = "batches"
    /\ pos < Len(Flat(batches))
    /\ LET id == Flat(batches)[pos + 1]
           pre == repos[id]
           w == wc[Folder(pre)]
       IN  \E eo \in MayFail(EnrichOutcomes, {"ok"}, 0) :
           \E ans \in IF eo = "ok" THEN ApiAnswers ELSE {NoAnswer} :
             LET en == enrichRepoData(pre, eo, ans)
                 f1 == Fault(eo # "ok")
             IN  IF en.raised
                 THEN PassEscapes(id, en.repo,
                                  LastOf(pre, Absent, "none", "none", "none", NoClone),
                                  f1)
                 ELSE IF config.no_clone
                 THEN ScanPass(id, en.repo, w, "off", NoClone, f1)
                 ELSE LET try == cloneRepo(en.repo, None, config.update_repos,
                                           config.scan_last_branch, w, "ok", "master", askpass)
                      IN  \E git \in MayFail(GitChoices(try.ops), {"ok"}, f1) :
                          \E initb \in InitChoices(try.ops) :
                            LET cl == cloneRepo(en.repo, None, config.update_repos,
                                                config.scan_last_branch, w, git, initb, askpass)
                                f2 == f1 + Fault(git # "ok")
                            IN  IF cl.raised
                                THEN ScanPass(id, en.repo, cl.wc, "raised", cl, f2)
                                ELSE ScanPass(id, en.repo, cl.wc, "ok", cl, f2)
    /\ UNCHANGED <<probed, runs, config, bidx, order, batches, fetched, mergeVars>>

process_repo ==
    /\ pc = "batches"
    /\ pos < Len(Flat(batches))
    /\ LET id == Flat(batches)[pos + 1]
           pre == repos[id]
           w == wc[Folder(pre)]
       IN  \E eo \in MayFail(EnrichOutcomes, {"ok"}, 0) :
           \E ans \in IF eo = "ok" THEN ApiAnswers ELSE {NoAnswer} :
             LET en == enrichRepoData(pre, eo, ans)
                 f1 == Fault(eo # "ok")
             IN  IF en.raised
                 THEN PassEscapes(id, en.repo,
                                  LastOf(pre, Absent, "none", "none", "none", NoClone),
                                  f1)
                 ELSE IF config.no_clone
                 THEN ScanPass(id, en.repo, w, "off", NoClone, f1)
                 ELSE LET try == cloneRepo(en.repo, None, config.update_repos,
                                           config.scan_last_branch, w, "ok", "master", askpass)
                      IN  \E git \in MayFail(GitChoices(try.ops), {"ok"}, f1) :
                          \E initb \in InitChoices(try.ops) :
                            LET cl == cloneRepo(en.repo, None, config.update_repos,
                                                config.scan_last_branch, w, git, initb, askpass)
                                f2 == f1 + Fault(git # "ok")
                            IN  IF cl.raised
                                THEN PassEnds(id, en.repo, cl.wc, dirty_repos, files,
                                              LastOf(pre,
                                                     TargetBranch(en.repo, None,
                                                        config.scan_last_branch),
                                                     "raised", "none", "none",
                                                     cl), FALSE, f2)
                                ELSE ScanPass(id, en.repo, cl.wc, "ok", cl, f2)
    /\ UNCHANGED <<probed, runs, config, bidx, order, batches, fetched, mergeVars>>

\* main(): after the last batch
mainFinish ==
    /\ pc = "batches"
    /\ pos = Len(Flat(batches))
    /\ IF dirty_repos # {} THEN EndRun(3, "completed") ELSE EndRun(0, "completed")
    /\ done_prev' = {}
    /\ UNCHANGED <<probed, runs, config, bidx, files, repos, order, batches, pos,
                   dirty_repos, bar, wc, fetched, last, done_now, faults, found,
                   askpass,
                   mergeVars>>

\* the operator interrupts the run between two repositories
Kill ==
    /\ pc = "batches"
    /\ pos < Len(Flat(batches))
    /\ Left(0) > 0
    /\ faults' = faults + 1
    /\ pc' = "idle"
    /\ exit' = Exit(0 - 1, "killed")
    /\ done_prev' = DonePrev(repos, done_now)
    /\ UNCHANGED <<probed, runs, config, bidx, files, repos, order, batches, pos,
                   dirty_repos, bar, wc, fetched, last, done_now, found,
                   askpass,
                   mergeVars>>

(***************************************************************************)
(* main(): the interactive arm (interactive_pick_enriched_repo, cloneRepo, *)
(* gitleaksScanRepo without dirty_repos, persistRepoData, exit 0).         *)
(***************************************************************************)
InteractiveEnds(id, repo, w, fs, lastrec, code, why, nf) ==
    /\ askpass' = lastrec.scripts
    /\ repos' = [repos EXCEPT ![id] = repo]
    /\ wc' = [wc EXCEPT ![Folder(repo)] = w]
    /\ files' = fs
    /\ last' = lastrec
    /\ EndRun(code, why)
    /\ done_prev' = {}
    /\ faults' = faults + nf
    /\ found' = Found(lastrec)

InteractiveScan(id, repo, w, branch, cl, nf) ==
    LET pre == repos[id]
    IN  \E code \in IF w.state = "absent" THEN {1}
                    ELSE MayFail(ScannerExits, {0, 3}, nf) :
        \E n \in IF code = 3 THEN 0..MaxFindings ELSE {0} :
          LET sc == gitleaksScanRepo(repo, branch, w, code, n, {}, FALSE)
          IN  IF sc.raised
              THEN InteractiveEnds(id, repo, w, files,
                                   LastOf(pre, branch, "ok", "failed", "none", cl),
                                   1, "exception", nf + Fault(sc.ran))
              ELSE \E wo \in MayFail(WriteOutcomes, {"ok"}, nf) :
                    LET t == repo["type"]
                        p == persistState([repos EXCEPT ![id] = sc.repo], t,
                                          files[t], wo)
                        scanner == IF code = 3 THEN "exit3" ELSE "exit0"
                    IN  InteractiveEnds(id, sc.repo, w,
                                        [files EXCEPT ![t] = p.file],
                                        LastOf(pre, branch, "ok", scanner,
                                               IF p.raised THEN "raised" ELSE "ok",
                                               cl),
                                        IF p.raised THEN 1 ELSE 0,
                                        IF p.raised THEN "exception"
                                        ELSE "completed",
                                        nf + Fault(p.raised))

InteractiveRun ==
    /\ pc = "interactive"
    /\ \E id \in DOMAIN repos :
       \E eo \in MayFail(EnrichOutcomes, {"ok"}, 0) :
       \E ans \in IF eo = "ok" THEN ApiAnswers ELSE {NoAnswer} :
         LET pre == repos[id]
             w == wc[Folder(pre)]
             en == enrichRepoData(pre, eo, ans)
             none == LastOf(pre, Absent, "none", "none", "none", NoClone)
             f1 == Fault(eo # "ok")
         IN  IF en.raised \/ ~Has(en.repo, "latest_branch")
             THEN InteractiveEnds(id, en.repo, w, files, none, 1, "exception",
                                  f1)
             ELSE \E pick \in {en.repo["latest_branch"], en.repo["default_branch"]} :
                   LET branch == IF pick # None THEN pick
                                 ELSE en.repo["default_branch"]
                   IN  IF branch = None
                       THEN InteractiveEnds(id, en.repo, w, files, none, 0,
                                            "declined", f1)
                       ELSE LET try == cloneRepo(en.repo, branch,
                                                 config.update_repos,
                                                 config.scan_last_branch, w,
                                                 "ok", "master", askpass)
                            IN  \E git \in MayFail(GitChoices(try.ops), {"ok"}, f1) :
                                \E initb \in InitChoices(try.ops) :
                                  LET cl == cloneRepo(en.repo, branch,
                                                      config.update_repos,
                                                      config.scan_last_branch,
                                                      w, git, initb, askpass)
                                      f2 == f1 + Fault(git # "ok")
                                  IN  IF cl.raised
                                      THEN InteractiveEnds(id, en.repo, cl.wc, files,
                                                LastOf(pre, branch, "raised", "none",
                                                       "none", cl),
                                                1, "exception", f2)
                                      ELSE InteractiveScan(id, en.repo, cl.wc,
                                                           branch, cl, f2)
    /\ UNCHANGED <<probed, runs, config, bidx, order, batches, pos, dirty_repos, bar,
                   fetched, done_now, mergeVars>>

Next ==
    \/ StartRun
    \/ getData
    \/ mainPlan
    \/ process_repo
    \/ mainFinish
    \/ Kill
    \/ InteractiveRun

Spec == Init /\ [][Next]_vars

(***************************************************************************)
(* main.updateRepoInfo on its own: the cached dict and the fetched dict    *)
(* are drawn, the call is one step.                                        *)
(***************************************************************************)
\* what the cache can hold for an id: a fetched entity never processed, or
\* one a pass has enriched and scanned
CachedRepos(id) ==
    {FetchedRepo(t, id, "main") : t \in BackendNames}
        \cup {ProcessedRepo("gitlab", id, "main", 0, 0),
              ProcessedRepo("gitlab", id, "dev", 3, MaxFindings),
              ProcessedRepo("bitbucket_dc", id, "dev", 3, 0)}

\* what a caller can hand over as new data for an id: a backend's fetched
\* entity, or a dict that carries scan state of its own
NewRepos(id) ==
    {FetchedRepo(t, id, db) : t \in BackendNames, db \in {"dev", None}}
        \cup {ProcessedRepo("gitlab", id, "dev", 3, 0)}

\* the dicts over every subset of the ids
CachedDicts ==
    UNION {{Dict(m) : m \in {f \in [S -> UNION {CachedRepos(i) : i \in S}] :
                                \A i \in S : f[i] \in CachedRepos(i)}} :
           S \in SUBSET Ids}

NewDicts ==
    UNION {{Dict(m) : m \in {f \in [S -> UNION {NewRepos(i) : i \in S}] :
                                \A i \in S : f[i] \in NewRepos(i)}} :
           S \in SUBSET Ids}

MergeInit ==
    /\ RunInit
    /\ current \in CachedDicts \cup {NoDict}
    /\ new \in NewDicts \cup {NoDict}
    /\ result = NoResult
    /\ verdict = "none"
    /\ report = <<>>

\* result = updateRepoInfo(current, new); the dict passed as current is
\* mutated in place when the merge loop runs
Reconcile ==
    /\ result.state = "none"
    /\ LET r == updateRepoInfo(current, new)
       IN  result' = [state |-> "done", raised |-> r.raised, value |-> r.value,
                      current |-> IF r.raised \/ current.none
                                        \/ Keys(current) = {}
                                     THEN current ELSE r.value,
                      again |-> NoAgain]
    /\ UNCHANGED <<current, new, verdict, report, runVars>>

\* updateRepoInfo(result, new): the dict a first call returned is handed
\* back as current together with the same new data
ReconcileAgain ==
    /\ result.state = "done"
    /\ ~result.raised
    /\ ~result.again.done
    /\ LET r == updateRepoInfo(result.value, new)
       IN  result' = [result EXCEPT !.again = [done |-> TRUE,
                                               raised |-> r.raised,
                                               value |-> r.value]]
    /\ UNCHANGED <<current, new, verdict, report, runVars>>

NextMerge == Reconcile \/ ReconcileAgain

SpecMerge == MergeInit /\ [][NextMerge]_vars

(***************************************************************************)
(* cloneRepo on its own: one entity, its folder in any of the states a     *)
(* folder can be found in, called again and again (as successive runs do). *)
(***************************************************************************)
\* the entities cloneRepo is handed: enrichRepoData's return value
EnrichedRepos ==
    {enrichRepoData(FetchedRepo(t, 1, db), eo, ans).repo :
        t \in BackendNames, db \in {"main", None}, eo \in {"ok", "raise"},
        ans \in ApiAnswers}

\* a folder as found on disk: absent, without .git, a working copy made
\* from this or another remote, or what a failed first clone left
FoundFolders ==
    {NoFolder, [NoFolder EXCEPT !.state = "nogit"]}
        \cup {[state |-> "git", origin |-> o, active |-> b, heads |-> {b},
               tree |-> b] : o \in {"http", "other"}, b \in Branches}
        \cup {[state |-> "git", origin |-> o, active |-> b, heads |-> {},
               tree |-> None] : o \in {"http", None}, b \in InitBranches}

\* update_repos and scan_last_branch are the two settings cloneRepo reads
CloneConfigs ==
    {Config(<<"gitlab", "bitbucket_dc">>, FALSE, TRUE, FALSE, FALSE, slb, upr,
            FALSE, 1, TRUE) : slb \in BOOLEAN, upr \in BOOLEAN}

CloneInit ==
    /\ pc = "clone"
    /\ runs = 0
    /\ config \in CloneConfigs
    /\ bidx = 1
    /\ files = [t \in BackendNames |-> NoFile]
    /\ \E r \in EnrichedRepos : repos = (1 :> r)
    /\ order = <<1>>
    /\ batches = <<>>
    /\ pos = 0
    /\ dirty_repos = {}
    /\ bar = 0
    /\ \E w \in FoundFolders :
         wc = [f \in FolderSet |-> IF f = Folder(repos[1]) THEN w ELSE NoFolder]
    /\ fetched = {}
    /\ exit = NoExit
    /\ last = NoLast
    /\ done_now = {}
    /\ done_prev = {}
    /\ faults = 0
    /\ found = {}
    /\ askpass = 0
    /\ probed = {}
    /\ MergeIdle

\* cloneRepo(repo, branch): process_batch passes no branch, the interactive
\* menu passes the one the operator typed
CloneCall ==
    /\ pc = "clone"
    /\ runs < MaxCalls
    /\ \E branch \in {None, "dev"}, git \in GitOutcomes, initb \in InitBranches :
         LET repo == repos[1]
             cl == cloneRepo(repo, branch, config.update_repos,
                             config.scan_last_branch, wc[Folder(repo)], git,
                             initb, askpass)
         IN  /\ wc' = [wc EXCEPT ![Folder(repo)] = cl.wc]
             /\ askpass' = cl.scripts
             /\ last' = [NoLast EXCEPT
                            !.id = repo["id"], !.type = repo["type"],
                            !.target = TargetBranch(repo, branch,
                                                    config.scan_last_branch),
                            !.sync = IF cl.raised THEN "raised" ELSE "ok",
                            !.ops = cl.ops, !.scripts = cl.scripts,
                            !.error = cl.error, !.git = cl.git]
    /\ runs' = runs + 1
    /\ UNCHANGED <<probed, pc, config, bidx, files, repos, order, batches, pos,
                   dirty_repos, bar, fetched, exit, done_now, done_prev,
                   faults, found, mergeVars>>

\* the operator removes the folder the error message names
RemoveFolder ==
    /\ pc = "clone"
    /\ last.error \in {"nogit", "origin"}
    /\ wc[Folder(repos[1])].state # "absent"
    /\ wc' = [wc EXCEPT ![Folder(repos[1])] = NoFolder]
    /\ last' = NoLast
    /\ UNCHANGED <<probed, pc, runs, config, bidx, files, repos, order, batches, pos,
                   dirty_repos, bar, fetched, exit, done_now, done_prev,
                   faults, found, askpass, mergeVars>>

NextClone == CloneCall \/ RemoveFolder

SpecClone == CloneInit /\ [][NextClone]_vars

(***************************************************************************)
(* One pass of process_batch over one cached repository, its folder in any *)
(* state, under every combination of the flags the pass reads.             *)
(***************************************************************************)
BatchConfigs ==
    {Config(<<"gitlab", "bitbucket_dc">>, FALSE, scan, force, noclone, slb,
            TRUE, FALSE, 1, TRUE) :
        scan \in BOOLEAN, force \in BOOLEAN, noclone \in BOOLEAN,
        slb \in BOOLEAN}

\* the cache holds the repository as fetched, or as an earlier run left it
CachedEntities ==
    {FetchedRepo(t, 1, db) : t \in BackendNames, db \in {"main", None}}
        \cup {ProcessedRepo(t, 1, b, 0, 0) : t \in BackendNames, b \in Branches}

BatchInit ==
    /\ pc = "batches"
    /\ runs = 1
    /\ config \in BatchConfigs
    /\ bidx = 1
    /\ \E r \in CachedEntities :
         /\ repos = (1 :> r)
         /\ files = [t \in BackendNames |->
                        IF t = r["type"] THEN YamlFile(data_version, (1 :> r))
                        ELSE NoFile]
    /\ order = <<1>>
    /\ batches = <<<<1>>>>
    /\ pos = 0
    /\ dirty_repos = {}
    /\ bar = 0
    /\ \E w \in FoundFolders :
         wc = [f \in FolderSet |-> IF f = Folder(repos[1]) THEN w ELSE NoFolder]
    /\ fetched = {}
    /\ exit = NoExit
    /\ last = NoLast
    /\ done_now = {}
    /\ done_prev = {}
    /\ faults = 0
    /\ found = {}
    /\ askpass = 0
    /\ probed = {}
    /\ MergeIdle

NextBatch == process_repo \/ mainFinish

SpecBatch == BatchInit /\ [][NextBatch]_vars

(***************************************************************************)
(* checkRepoInFilterSet on its own: one repository, every combination of   *)
(* the three patterns.                                                     *)
(***************************************************************************)
\* none, "", an invalid expression, and expressions found in the group
\* names, the repository names, both or neither
FilterPatterns ==
    {NoPattern, EmptyPattern, BadPattern, Pattern({}),
     Pattern({GroupName("gitlab")}), Pattern({RepoName(1)}),
     Pattern({GroupName("bitbucket_dc"), RepoName(1)})}

FilterConfigs ==
    {[DefaultConfig(<<"gitlab", "bitbucket_dc">>) EXCEPT
        !.groupfilter = g, !.repofilter = r, !.grouprepofilter = c] :
        g \in FilterPatterns, r \in FilterPatterns, c \in FilterPatterns}

FilterInit ==
    /\ pc = "filter"
    /\ runs = 1
    /\ config \in FilterConfigs
    /\ bidx = 1
    /\ files = [t \in BackendNames |-> NoFile]
    /\ \E t \in BackendNames, i \in Ids : repos = (1 :> FetchedRepo(t, i, "main"))
    /\ order = <<1>>
    /\ batches = <<>>
    /\ pos = 0
    /\ dirty_repos = {}
    /\ bar = 0
    /\ wc = [f \in FolderSet |-> NoFolder]
    /\ fetched = {}
    /\ exit = NoExit
    /\ last = NoLast
    /\ done_now = {}
    /\ done_prev = {}
    /\ faults = 0
    /\ found = {}
    /\ askpass = 0
    /\ probed = {}
    /\ MergeIdle

\* verdict = checkRepoInFilterSet(repo)
CheckRepo ==
    /\ pc = "filter"
    /\ verdict = "none"
    /\ verdict' = checkRepoInFilterSet(config, repos[1])
    /\ UNCHANGED <<current, new, result, report, runVars>>

NextFilter == CheckRepo

SpecFilter == FilterInit /\ [][NextFilter]_vars

(***************************************************************************)
(* repos_to_batches on its own: any ordered set of repositories (the keys  *)
(* of the dict in insertion order) and any batch size getinfo lets through.*)
(***************************************************************************)
OrderedSets ==
    UNION {{q \in [1..n -> 1..MaxRepos] : \A i, j \in 1..n : q[i] = q[j] => i = j} :
              n \in 0..MaxRepos}

\* batch_size = args.batch_size if args.batch_size > 0 else 0
BatchSizes == 0..MaxBatch

PartitionInit ==
    /\ pc = "partition"
    /\ runs = 1
    /\ \E bs \in BatchSizes :
         config = [DefaultConfig(<<"gitlab">>) EXCEPT !.batch_size = bs]
    /\ bidx = 1
    /\ files = [t \in BackendNames |-> NoFile]
    /\ repos = <<>>
    /\ order \in OrderedSets
    /\ batches = <<>>
    /\ pos = 0
    /\ dirty_repos = {}
    /\ bar = 0
    /\ wc = [f \in FolderSet |-> NoFolder]
    /\ fetched = {}
    /\ exit = NoExit
    /\ last = NoLast
    /\ done_now = {}
    /\ done_prev = {}
    /\ faults = 0
    /\ found = {}
    /\ askpass = 0
    /\ probed = {}
    /\ MergeIdle

\* batches = repos_to_batches(repos_filtered, config["batch_size"])
Partition ==
    /\ pc = "partition"
    /\ batches' = repos_to_batches(order, config.batch_size)
    /\ pc' = "partitioned"
    /\ UNCHANGED <<probed, runs, config, bidx, files, repos, order, pos, dirty_repos,
                   bar, wc, fetched, exit, last, done_now, done_prev, faults,
                   found, askpass, mergeVars>>

NextPartition == Partition

SpecPartition == PartitionInit /\ [][NextPartition]_vars

(***************************************************************************)
(* The run modes: batch, --interactive, --updateinfo and                   *)
(* --executive_report, each with every combination of the three filters,   *)
(* from getinfo up to the point where the repositories are filtered.       *)
(***************************************************************************)
\* the cache files generateExecutiveReport reads, one backend after the
\* other: 0 a file read and merged, 1 a file that cannot be read, 2 a file
\* of another data version (readFile returns None, dict.update raises)
RECURSIVE ReadCaches(_, _, _)
ReadCaches(k, rs, ord) ==
    IF k > Len(Backends) THEN [raised |-> FALSE, repos |-> rs, order |-> ord]
    ELSE LET f == files[Backends[k]]
             rd == readFile(f)
         IN  IF f.kind = "absent" THEN ReadCaches(k + 1, rs, ord)
             ELSE IF rd.raised \/ rd.value.none
             THEN [raised |-> TRUE, repos |-> rs, order |-> ord]
             ELSE ReadCaches(k + 1, Update(rs, rd.value.m),
                             AppendNew(ord, DOMAIN rd.value.m))

\* repos_for_report: the repositories with secrets_found >= 0
ForReport(rs, ids) ==
    SelectSeq(ids, LAMBDA i : rs[i]["secrets_found"] >= 0)

\* sorted(..., key=secrets_found, reverse=True): stable, largest count first
RECURSIVE SortedRows(_, _, _)
SortedRows(rs, ids, n) ==
    IF n < 0 THEN <<>>
    ELSE SelectSeq(ids, LAMBDA i : rs[i]["secrets_found"] = n)
            \o SortedRows(rs, ids, n - 1)

\* main(): print(generateExecutiveReport()); sys.exit(0)
generateExecutiveReport ==
    /\ pc = "report"
    /\ LET rd == ReadCaches(1, <<>>, <<>>)
           f == repos_in_filterset(config, rd.repos, rd.order)
       IN  IF rd.raised
           THEN EndRun(1, "report_read") /\ UNCHANGED <<repos, order, report>>
           ELSE /\ repos' = rd.repos
                /\ order' = rd.order
                /\ IF f.raised
                   THEN EndRun(1, "config") /\ UNCHANGED report
                   ELSE IF f.ids = <<>>
                   THEN EndRun(0, "noreport") /\ UNCHANGED report
                   ELSE /\ EndRun(0, "report")
                        /\ report' = SortedRows(rd.repos,
                                                ForReport(rd.repos, f.ids),
                                                MaxFindings)
    /\ UNCHANGED <<probed, runs, config, bidx, files, batches, pos, dirty_repos, bar,
                   wc, fetched, last, done_now, done_prev, faults, found,
                   askpass, current, new, result, verdict>>

\* one command line per mode
ModeLines ==
    {DefaultConfig(<<"gitlab">>),
     [DefaultConfig(<<"gitlab">>) EXCEPT !.interactive = TRUE],
     [DefaultConfig(<<"gitlab">>) EXCEPT !.updateinfo = TRUE],
     [DefaultConfig(<<"gitlab">>) EXCEPT !.executive_report = TRUE]}

ModePatterns ==
    {NoPattern, EmptyPattern, Pattern({GroupName("gitlab")}),
     Pattern({RepoName(1)})}

ModeConfigs ==
    {[m EXCEPT !.groupfilter = g, !.repofilter = r, !.grouprepofilter = c] :
        m \in ModeLines, g \in ModePatterns, r \in ModePatterns,
        c \in ModePatterns}

\* the cache of a gitlab run that scanned two repositories
ScannedCache ==
    YamlFile(data_version,
             (1 :> ProcessedRepo("gitlab", 1, "main", 0, 0))
                @@ (2 :> ProcessedRepo("gitlab", 2, "main", 3, 1)))

ModeInit ==
    /\ pc = "idle"
    /\ runs = 0
    /\ config = DefaultConfig(<<"gitlab">>)
    /\ bidx = 1
    /\ files \in {[t \in BackendNames |-> NoFile],
                  [t \in BackendNames |->
                      IF t = "gitlab" THEN ScannedCache ELSE NoFile],
                  [t \in BackendNames |-> StaleFile(t)]}
    /\ repos = <<>>
    /\ order = <<>>
    /\ batches = <<>>
    /\ pos = 0
    /\ dirty_repos = {}
    /\ bar = 0
    /\ wc = [f \in FolderSet |-> NoFolder]
    /\ fetched = {}
    /\ exit = NoExit
    /\ last = NoLast
    /\ done_now = {}
    /\ done_prev = {}
    /\ faults = 0
    /\ found = {}
    /\ askpass = 0
    /\ probed = {}
    /\ MergeIdle

StartMode == StartWith(ModeConfigs)

NextMode == StartMode \/ generateExecutiveReport \/ getData \/ mainPlan

SpecMode == ModeInit /\ [][NextMode]_vars

(***************************************************************************)
(* Runs given command lines with and without configuration errors: one or  *)
(* two backends, each with or without URL and token, and filters that are  *)
(* missing, valid, conflicting or invalid.                                 *)
(***************************************************************************)
SetupPatterns == {NoPattern, BadPattern, Pattern({GroupName("gitlab")})}

SetupBackends ==
    {<<"gitlab">>, <<"gitlab", "bitbucket_dc">>, <<"bitbucket_dc", "gitlab">>}

SetupConfigs ==
    {[DefaultConfig(bc) EXCEPT !.missing = ms, !.groupfilter = g,
                               !.repofilter = r, !.grouprepofilter = c] :
        bc \in SetupBackends, ms \in SUBSET BackendNames,
        g \in SetupPatterns, r \in SetupPatterns, c \in SetupPatterns}

\* the cache files before the first run: none, or those of an earlier run
SetupFiles ==
    {[t \in BackendNames |-> NoFile],
     [t \in BackendNames |-> IF t = "gitlab" THEN ScannedCache ELSE NoFile]}

SetupInit ==
    /\ pc = "idle"
    /\ runs = 0
    /\ config = DefaultConfig(<<"gitlab">>)
    /\ bidx = 1
    /\ files \in SetupFiles
    /\ repos = <<>>
    /\ order = <<>>
    /\ batches = <<>>
    /\ pos = 0
    /\ dirty_repos = {}
    /\ bar = 0
    /\ wc = [f \in FolderSet |-> NoFolder]
    /\ fetched = {}
    /\ exit = NoExit
    /\ last = NoLast
    /\ done_now = {}
    /\ done_prev = {}
    /\ faults = 0
    /\ found = {}
    /\ askpass = 0
    /\ probed = {}
    /\ MergeIdle

StartSetup == StartWith(SetupConfigs)

NextSetup == StartSetup \/ getData \/ mainPlan

SpecSetup == SetupInit /\ [][NextSetup]_vars

(***************************************************************************)
(* enrichRepoData on its own: one call for an entity as fetched or as      *)
(* cached after an earlier run.                                            *)
(***************************************************************************)
EnrichInputs ==
    {FetchedRepo(t, i, db) : t \in BackendNames, i \in Ids, db \in {"main", None}}
        \cup {ProcessedRepo(t, i, b, 0, 0) : t \in BackendNames, i \in Ids,
                                              b \in Branches}
        \cup {ProcessedRepo(t, i, "dev", 3, MaxFindings) :
                  t \in BackendNames, i \in Ids}

EnrichInit ==
    /\ RunInit
    /\ current \in {Dict((r["id"] :> r)) : r \in EnrichInputs}
    /\ new = NoDict
    /\ result = NoResult
    /\ verdict = "none"
    /\ report = <<>>

\* repo = enrichRepoData(repo), as process_batch and the interactive picker
\* call it
Enrich ==
    /\ result.state = "none"
    /\ \E i \in Keys(current) :
       \E eo \in EnrichOutcomes :
       \E ans \in IF eo = "ok" THEN ApiAnswers ELSE {NoAnswer} :
          LET en == enrichRepoData(current.m[i], eo, ans)
          IN  result' = [state |-> "done", raised |-> en.raised,
                         value |-> Dict((i :> en.repo)),
                         current |-> current, again |-> NoAgain,
                         outcome |-> eo]
    /\ UNCHANGED <<current, new, verdict, report, runVars>>

NextEnrich == Enrich

SpecEnrich == EnrichInit /\ [][NextEnrich]_vars

(***************************************************************************)
(* Where the backend token goes.  Two installations that differ only in    *)
(* the token go through the same steps with the same answers of the        *)
(* backend, of git and of the scanner; an installation is its token, its   *)
(* cache files, cache['repos'], its working copies and the helper scripts  *)
(* in the temp folder.                                                     *)
(***************************************************************************)
Tokens == {"tokA", "tokB"}

\* VcsBackend.get_git_username_password
get_git_username_password(t, token) ==
    <<IF t = "gitlab" THEN "oauth2" ELSE "x-token-auth", token>>

\* the text create_askpass_script writes into the helper script
askpass_script(username, token) == <<"#!/bin/sh", username, token>>

\* a remote add that puts the credentials into the URL
remote_add_withauth(url, cred) == cred[1] \o ":" \o cred[2] \o "@" \o url

\* git remote add origin <http_link>: the URL written to .git/config
remote_add(url, cred) == url

\* VcsBackend.fetchAllRepos: the token authenticates the API client, the
\* listing is the backend's answer
fetchAllRepos(t, token, answer) == answer

\* cloneRepo with its credentials: the helper script holds the token while
\* git runs (GIT_ASKPASS) and is unlinked in the finally clause
cloneRepoAuth(token, repo, w, git, initb, tmp) ==
    LET cred == get_git_username_password(repo["type"], token)
        script == askpass_script(cred[1], cred[2])
        cl == cloneRepo(repo, None, config.update_repos,
                        config.scan_last_branch, w, git, initb,
                        Cardinality(tmp))
    IN  [raised |-> cl.raised,
         wc |-> IF HasOp(cl.ops, "remote")
                THEN [cl.wc EXCEPT !.origin = remote_add(repo["http_link"], cred)]
                ELSE cl.wc,
         during |-> tmp \cup {script},
         tmp |-> (tmp \cup {script}) \ {script}]

Installation(token) ==
    [token |-> token,
     files |-> [t \in BackendNames |-> NoFile],
     repos |-> <<>>,
     wc |-> [f \in FolderSet |-> NoFolder],
     tmp |-> {}]

\* getData for one backend
getDataOf(c, t, answer, wo) ==
    LET rd == readFile(c.files[t])
        data == IF rd.raised THEN EmptyDict ELSE rd.value
    IN  IF ~(data.none \/ Keys(data) = {})
        THEN [c EXCEPT !.repos = Update(@, data.m)]
        ELSE LET new_data == fetchAllRepos(t, c.token, answer)
                 w == writeFile(new_data.m, c.files[t], wo)
             IN  [c EXCEPT !.files[t] = w.file,
                           !.repos = IF w.raised THEN @
                                     ELSE Update(@, new_data.m)]

\* one pass of process_batch
passOf(c, id, eo, ans, git, initb, code, n, wo) ==
    LET en == enrichRepoData(c.repos[id], eo, ans)
        cl == cloneRepoAuth(c.token, en.repo, c.wc[Folder(en.repo)], git,
                            initb, c.tmp)
        c1 == [c EXCEPT !.repos[id] = en.repo,
                        !.wc[Folder(en.repo)] = cl.wc,
                        !.tmp = cl.tmp]
        sc == gitleaksScanRepo(en.repo,
                               TargetBranch(en.repo, None,
                                            config.scan_last_branch),
                               cl.wc, code, n, {}, TRUE)
        t == en.repo["type"]
        p == persistState([c1.repos EXCEPT ![id] = sc.repo], t, c.files[t], wo)
    IN  IF en.raised THEN c
        ELSE IF cl.raised THEN c1
        ELSE IF sc.raised THEN c1
        ELSE [c1 EXCEPT !.repos[id] = sc.repo, !.files[t] = p.file]

TokenInit ==
    /\ RunInit
    /\ current = Installation("tokA")
    /\ new = Installation("tokB")
    /\ result = NoResult
    /\ verdict = "none"
    /\ report = <<>>

TokenVars ==
    <<probed, pc, config, bidx, files, repos, order, batches, pos,
      dirty_repos, bar, wc, fetched, exit, last, done_now, done_prev,
      faults, found, askpass, result, verdict, report>>

TokenGetData ==
    /\ runs < MaxCalls
    /\ runs' = runs + 1
    /\ \E t \in BackendNames, wo \in WriteOutcomes :
       \E answer \in FetchAnswers(t) :
          /\ current' = getDataOf(current, t, answer, wo)
          /\ new' = getDataOf(new, t, answer, wo)
    /\ UNCHANGED TokenVars

TokenPass ==
    /\ runs < MaxCalls
    /\ runs' = runs + 1
    /\ \E id \in DOMAIN current.repos \cap DOMAIN new.repos :
       \E eo \in {"ok", "raise"}, ans \in ApiAnswers, git \in GitOutcomes,
          initb \in InitBranches, code \in ScannerExits, wo \in {"ok"} :
          /\ current' = passOf(current, id, eo, ans, git, initb, code,
                               IF code = 3 THEN MaxFindings ELSE 0, wo)
          /\ new' = passOf(new, id, eo, ans, git, initb, code,
                           IF code = 3 THEN MaxFindings ELSE 0, wo)
    /\ UNCHANGED TokenVars

NextToken == TokenGetData \/ TokenPass

SpecToken == TokenInit /\ [][NextToken]_vars

(***************************************************************************)
(* Reconciliation protects the local and scan-state fields.                *)
(***************************************************************************)
\* C1: after updateRepoInfo(current, new) with a non-empty current, every
\* repository id present in both dicts has, in the result, the scanned,
\* secrets_found, report_path and folder it had in current before the
\* call, whatever new carries for those fields
C1_ProtectedFieldsKept ==
    (result.state = "done" /\ ~result.raised /\ ~current.none
        /\ Keys(current) # {})
    => \A i \in Keys(current) \cap Keys(new) :
         \A f \in ProtectedFields : result.value.m[i][f] = current.m[i][f]

\* a merge done for an id whose new entry carries another scanned value and
\* another finding count than the cached one
C1_Witness ==
    /\ result.state = "done" /\ ~result.raised
    /\ ~current.none
    /\ \E i \in Keys(current) \cap Keys(new) :
         /\ Has(new.m[i], "scanned") /\ Has(current.m[i], "scanned")
         /\ new.m[i]["scanned"] # current.m[i]["scanned"]
         /\ new.m[i]["secrets_found"] # current.m[i]["secrets_found"]
         /\ new.m[i]["default_branch"] # current.m[i]["default_branch"]
         /\ result.value.m[i]["default_branch"] = new.m[i]["default_branch"]

(***************************************************************************)
(* Properties of the runs.                                                 *)
(***************************************************************************)
\* labels of a pass in which the scanner process ran / gitleaksScanRepo was
\* called
ScannerRan == {"exit0", "exit3", "failed"}
ScannerCalled == ScannerRan \cup {"no_folder"}

ValidStore(file) == file.kind = "yaml" /\ file.ver = data_version

\* C2: no exception of one repository aborts the run: a run that is over and
\* was not killed by the operator has attempted every repository of every
\* batch
C2_EveryRepositoryAttempted ==
    (pc = "idle" /\ exit.why # "killed") => pos = Len(Flat(batches))

\* C3: whenever the scheduler is about to start a repository, the store on
\* disk holds the scanned, secrets_found and report_path of every repository
\* whose scan completed earlier in the run
C3_CompletedScansOnDisk ==
    (pc = "batches" /\ pos < Len(Flat(batches)))
    => \A id \in done_now :
         LET file == files[repos[id]["type"]]
         IN  /\ ValidStore(file)
             /\ id \in DOMAIN file.data
             /\ ScanState(file.data[id]) = ScanState(repos[id])

\* a pass of process_batch that did not abort the run
Handled == last.id # 0 /\ ~config.interactive /\ exit.why # "process_batch"

\* force_scan is false and the prior scanned value equals the target branch
ScannedIsTarget ==
    /\ ~config.force_scan
    /\ last.pre_scanned # Absent
    /\ last.target # Absent
    /\ last.pre_scanned = last.target

DecisionReached ==
    /\ config.scan_gitleaks \/ config.force_scan
    /\ last.sync \in {"off", "ok"}
    /\ last.target # Absent

C5_ResumeDoesNotRescan ==
    ~(/\ ~config.force_scan
      /\ exit.why # "killed"
      /\ last.id # 0
      /\ last.scanner \in ScannerRan
      /\ <<last.type, last.id, last.target>> \in done_prev)

FatalEnds == {"setup", "config", "nodata", "fetch", "write", "exception",
              "process_batch"}

\* C6: a run that completed exits with 0 when no scan of the run reported
\* findings and with 3 when at least one did; a run ended by a fatal
\* condition exits with 1
C6_ExitCodes ==
    pc = "idle"
    => /\ (exit.why = "completed" /\ found = {}) => exit.code = 0
       /\ (exit.why = "completed" /\ found # {}) => exit.code = 3
       /\ exit.why \in FatalEnds => exit.code = 1

C7_Step ==
    \A t \in BackendNames :
        (ValidStore(files[t]) /\ files'[t] # files[t])
        => /\ ValidStore(files'[t])
           /\ DOMAIN files[t].data \subseteq DOMAIN files'[t].data

\* C7: over any sequence of runs, a write to a backend's valid store leaves
\* every entity that was in the store in it
C7_EntitiesNeverDeleted == [][C7_Step]_vars

C8_Step ==
    \A t \in BackendNames :
        /\ ~readFile(files[t]).value.none => files[t].ver = data_version
        /\ (/\ pc = "getData"
            /\ config.backends_chosen[bidx] = t
            /\ files[t].kind = "yaml"
            /\ files[t].ver # data_version)
           => /\ t \in fetched'
              /\ files'[t] # files[t]
                 => \/ files'[t].kind = "partial"
                    \/ /\ ValidStore(files'[t])
                       /\ Dict(files'[t].data) \in FetchAnswers(t)
              /\ pc' \in {"getData", "main"}
                 => \A i \in DOMAIN files'[t].data : repos'[i] = files'[t].data[i]

\* C8: readFile hands out the stored mapping only when the file's
\* data_version is the engine's; for a file of another version getData
\* fetches from the backend, and what it writes and keeps in memory is the
\* fetched data alone, nothing of the stale content
C8_StaleStoreRefetched == [][C8_Step]_vars

\* a first run over stale stores has fetched GitLab's repositories and
\* written them as a valid store
C8_Witness ==
    /\ runs = 1
    /\ files["bitbucket_dc"] = StaleFile("bitbucket_dc")
    /\ "gitlab" \in fetched
    /\ ValidStore(files["gitlab"])
    /\ DOMAIN files["gitlab"].data # {}
    /\ pc = "main"

\* C9: the file at a store's path is always a complete document, the
\* previous or the new one, never a partial write
C9_NeverPartial == \A t \in BackendNames : files[t].kind # "partial"

\* C10: once persistRepoData has raised for a repository, no later
\* repository of the run is synchronized or scanned
C10_WriteFailureStopsRun ==
    last.prior_fail => (last.sync \in {"none", "off"}
                           /\ last.scanner \notin ScannerCalled)


(***************************************************************************)
(* Claims about cloneRepo, under SpecClone.                                *)
(***************************************************************************)
\* the step is a cloneRepo call
Called == pc = "clone" /\ runs' = runs + 1

TheRepo == repos[1]
TheFolder == wc[Folder(repos[1])]

\* the folder is a working copy whose origin is another URL than http_link
OriginMismatch ==
    /\ TheFolder.state = "git"
    /\ TheFolder.origin # None
    /\ Has(TheRepo, "http_link")
    /\ TheFolder.origin # TheRepo["http_link"]

C11_Step ==
    (Called /\ OriginMismatch)
        => /\ last'.sync = "raised"
           /\ wc' = wc
           /\ \A op \in {"fetch", "checkout", "reset"} : ~HasOp(last'.ops, op)

\* C11: cloneRepo on an existing folder whose origin URL differs from the
\* entity's http_link always ends in an error, whatever update_repos and
\* the checked-out branch are, and does no fetch, checkout or reset
C11_OriginMismatchAlwaysFails == [][C11_Step]_vars

\* the message of lines 552-553 is the one raised: the entity has a default
\* branch and the field the target branch is read from exists
TargetResolved ==
    Truthy(TheRepo, "default_branch") /\ last'.target # Absent

\* C12 as stated: cloneRepo on an existing folder without .git fails with
\* the error naming the folder and leaves the folder as it is, on every call
C12_NamesFolder ==
    [][(Called /\ TheFolder.state = "nogit")
          => (last'.error = "nogit" /\ wc' = wc)]_vars

C12_Step ==
    (Called /\ TheFolder.state = "nogit")
        => /\ last'.sync = "raised"
           /\ wc' = wc
           /\ TargetResolved => last'.error = "nogit"

\* C12 amended: cloneRepo on an existing folder without .git raises on every call,
\* and leaves the folder as it is; the error is the one naming the folder
\* whenever the entity has a default branch and a readable target branch
C12_InvalidFolderFailsUntouched == [][C12_Step]_vars

\* the error recurred on a second call, the folder is still there
C12_Witness ==
    /\ runs >= 2
    /\ last.error = "nogit"
    /\ TheFolder.state = "nogit"


\* a call that found no folder and returned normally
FirstCloneDone == Called /\ TheFolder.state = "absent" /\ last'.sync = "ok"

\* the folder after the step
FolderAfter == wc'[Folder(repos[1])]

\* the remotes are those the `git remote add` commands of the call made
OneRemote(ops) == Cardinality({k \in 1..Len(ops) : ops[k] = "remote"}) = 1

C13_Step ==
    FirstCloneDone
        => /\ FolderAfter.state = "git"
           /\ FolderAfter.active = last'.target
           /\ FolderAfter.tree = last'.target
           \* "dev" is the only branch argument the calls pass
           /\ last'.target # "dev"
                => last'.target =
                     TargetBranch(TheRepo, None, config.scan_last_branch)
           /\ FolderAfter.origin = TheRepo["http_link"]
           /\ OneRemote(last'.ops)

C15_NoHelperScriptLeft == askpass = 0 /\ last.scripts = 0

\* a second call ended in the reset handler, with a fetch and a checkout
\* done under the helper script
C15_Witness ==
    /\ runs >= 2
    /\ last.error = "reset"
    /\ HasOp(last.ops, "checkout")
    /\ askpass = 0


(***************************************************************************)
(* Claims about a pass of process_batch, under SpecBatch.                  *)
(***************************************************************************)
\* the step is the pass over repository 1
PassOver == pc = "batches" /\ pos = 0 /\ last'.id = 1

\* what process_batch holds after `repo = enrichRepoData(repo)`
Enriched == repos'[1]

C14_Step ==
    (PassOver /\ ~Truthy(Enriched, "default_branch"))
        => /\ last'.ops = <<>>
           /\ wc' = wc
           /\ last'.scanner \notin ScannerRan

\* C14: a repository whose default_branch is unset is never cloned, updated
\* or scanned by process_batch, whatever no_clone, scan_gitleaks, force_scan
\* and scan_last_branch are and whether or not its folder exists
C14_NoDefaultBranchNeverProcessed == [][C14_Step]_vars


(***************************************************************************)
(* Claims about checkRepoInFilterSet, under SpecFilter.                    *)
(***************************************************************************)
\* re.search finds the pattern in the string
Matches(p, str) == p.valid /\ str \in p.hits

Answered == pc = "filter" /\ verdict # "none"

\* C17: with no combined pattern configured checkRepoInFilterSet returns
\* true if and only if (no group pattern is set or it matches the group)
\* and (no repo pattern is set or it matches the name); with no pattern at
\* all it returns true for every repository
C17_GroupAndRepoFilter ==
    (Answered /\ ~config.grouprepofilter.set)
        => /\ verdict = "in"
                <=> /\ ~config.groupfilter.set
                       \/ Matches(config.groupfilter, TheRepo["group"])
                    /\ ~config.repofilter.set
                       \/ Matches(config.repofilter, TheRepo["name"])
           /\ (~config.groupfilter.set /\ ~config.repofilter.set)
                => verdict = "in"

\* both patterns set, the group one matching and the repo one not
C17_Witness ==
    /\ Answered
    /\ ~config.grouprepofilter.set
    /\ Given(config.groupfilter) /\ Given(config.repofilter)
    /\ Matches(config.groupfilter, TheRepo["group"])
    /\ ~Matches(config.repofilter, TheRepo["name"])
    /\ config.repofilter.valid
    /\ verdict = "out"

\* C18: with a combined group-or-repo pattern configured
\* checkRepoInFilterSet returns true if and only if the pattern matches the
\* repository's group or its name
C18_CombinedFilter ==
    (Answered /\ config.grouprepofilter.set)
        => (verdict = "in"
              <=> \/ Matches(config.grouprepofilter, TheRepo["group"])
                  \/ Matches(config.grouprepofilter, TheRepo["name"]))

\* some configured pattern is not a regular expression
InvalidPattern ==
    \E p \in {config.groupfilter, config.repofilter, config.grouprepofilter} :
        p.set /\ ~p.valid

\* C20: if a configured filter pattern (group, repo or combined) is an
\* invalid regular expression, checkRepoInFilterSet raises instead of
\* returning true or false
C20_InvalidPatternRaises == (Answered /\ InvalidPattern) => verdict = "error"


(***************************************************************************)
(* Claims about repos_to_batches, under SpecPartition.                     *)
(***************************************************************************)
\* how often a repository occurs in the batches
Occurrences(id) ==
    Cardinality({<<k, j>> \in (1..Len(batches)) \X (1..MaxRepos) :
                    j <= Len(batches[k]) /\ batches[k][j] = id})

\* C16: for N repositories in order and B > 0, repos_to_batches returns
\* ceil(N/B) batches of at most B repositories each, whose concatenation in
\* order is the original set, every repository exactly once; for B = 0 it
\* returns a single batch holding every repository
C16_BatchesPartition ==
    pc = "partitioned"
        => LET N == Len(order)
               B == config.batch_size
           IN  /\ B > 0
                    => /\ Len(batches) = (N + B - 1) \div B
                       /\ \A k \in 1..Len(batches) : Len(batches[k]) <= B
                       /\ Flat(batches) = order
                       /\ \A k \in 1..N : Occurrences(order[k]) = 1
               /\ B = 0 => batches = <<order>>

\* three repositories in batches of two: a full batch and a partial one
C16_Witness ==
    /\ pc = "partitioned"
    /\ Len(order) = 3
    /\ config.batch_size = 2
    /\ Len(batches) = 2
    /\ Len(batches[2]) = 1


(***************************************************************************)
(* Claims about the run modes, under SpecMode.                             *)
(***************************************************************************)
\* the command line gives the combined pattern and a group or repo pattern
BothFilterModes ==
    /\ Given(config.grouprepofilter)
    /\ Given(config.groupfilter) \/ Given(config.repofilter)

\* C19: a command line with the combined group-or-repo pattern together
\* with a group or repo pattern is rejected in every run mode: the run ends
\* as a configuration error before any fetch and before any filtering
C19_FilterConflictRejected ==
    (runs >= 1 /\ BothFilterModes)
        => /\ pc = "idle"
           /\ exit = Exit(1, "config") \/ exit = Exit(1, "setup")
           /\ fetched = {}
           /\ report = <<>>


(***************************************************************************)
(* Claims about configuration errors, under SpecSetup.                     *)
(***************************************************************************)
Chosen == {config.backends_chosen[k] : k \in 1..Len(config.backends_chosen)}

\* a chosen backend without URL or token, conflicting filters, or a filter
\* that is not a regular expression
ConfigError ==
    \/ config.missing \cap Chosen # {}
    \/ FilterConflict(config)
    \/ InvalidPattern

\* C21: every configuration error (missing URL or token of a chosen
\* backend, conflicting filters, invalid regular expression) ends the run
\* with exit code 1 before any backend network call (probe or fetch) and
\* before any cache file is written, also with several backends chosen
C21_ConfigErrorsBeforeNetwork ==
    (runs >= 1 /\ ConfigError)
        => /\ pc = "idle"
           /\ exit.code = 1
           /\ probed = {}
           /\ fetched = {}
           /\ files \in SetupFiles


(***************************************************************************)
(* Further claims about reconciliation, under SpecMerge.                   *)
(***************************************************************************)
\* a call with a non-empty current and a new mapping has returned
Merged ==
    /\ result.state = "done" /\ ~result.raised
    /\ ~current.none /\ Keys(current) # {}
    /\ ~new.none

\* C22: with a non-empty current, an id of new that current lacks has new's
\* entity in the result, and an id both have has, in the result, new's
\* value in every field of new's entity that is not folder, scanned,
\* secrets_found or report_path
C22_NewInsertedOrOverwritten ==
    Merged =>
        \A i \in Keys(new) :
            /\ i \in Keys(result.value)
            /\ i \notin Keys(current) => result.value.m[i] = new.m[i]
            /\ i \in Keys(current) =>
                  \A f \in Fields \ ProtectedFields :
                      Has(new.m[i], f) => result.value.m[i][f] = new.m[i][f]

C22_Witness ==
    /\ Merged
    /\ \E i \in Keys(new) : i \notin Keys(current)
    /\ \E i \in Keys(new) \cap Keys(current) :
          \E f \in Fields \ ProtectedFields :
              /\ Has(new.m[i], f)
              /\ new.m[i][f] # current.m[i][f]
              /\ result.value.m[i][f] = new.m[i][f]

\* C23: an id that current has and new lacks is in the result with the
\* entity current had for it
C23_NeverPrunes ==
    (result.state = "done" /\ ~result.raised /\ ~current.none)
        => \A i \in Keys(current) :
               (new.none \/ i \notin Keys(new))
                   => /\ i \in Keys(result.value)
                      /\ result.value.m[i] = current.m[i]

C23_Witness ==
    /\ Merged
    /\ Keys(new) # {}
    /\ \E i \in Keys(current) :
          /\ i \notin Keys(new)
          /\ result.value.m[i] = current.m[i]

\* C24: with current absent or empty, the call returns new as it is
C24_EmptyCurrentReturnsNew ==
    (result.state = "done" /\ ~new.none
        /\ (current.none \/ Keys(current) = {}))
        => /\ ~result.raised
           /\ result.value = new

C24_Witness ==
    /\ result.state = "done" /\ ~result.raised
    /\ ~current.none /\ Keys(current) = {}
    /\ ~new.none /\ Keys(new) # {}
    /\ result.value = new

\* C25: with new absent the call raises, whatever current is, and the
\* caller's current is as it was
C25_AbsentNewRaises ==
    (result.state = "done" /\ new.none)
        => /\ result.raised
           /\ result.current = current

C25_Witness ==
    /\ result.state = "done" /\ new.none
    /\ ~current.none /\ Keys(current) # {}
    /\ result.raised

\* C26: handing the result of a call back as current, with the same new,
\* returns that result again
C26_Idempotent ==
    result.again.done
        => /\ ~result.again.raised
           /\ result.again.value = result.value

C26_Witness ==
    /\ result.again.done
    /\ Merged
    /\ result.value # current
    /\ result.value # new
    /\ result.again.value = result.value


(***************************************************************************)
(* The key of the merged repository set, under SpecSetup.                  *)
(***************************************************************************)
\* getData has gone through every chosen backend
DataLoaded == runs >= 1 /\ pc = "main"

\* C27: once getData has gone through the chosen backends, every entity of
\* every chosen backend's store is in the merged set (which main() keeps as
\* cache['repos']) under its backend type and id, also when two backends
\* use the same id
C27_CompositeKey ==
    DataLoaded =>
        \A t \in Chosen :
            ValidStore(files[t]) =>
                \A i \in DOMAIN files[t].data :
                    \E j \in DOMAIN repos :
                        repos[j]["type"] = t /\ repos[j]["id"] = i


(***************************************************************************)
(* Claims about the scanner's outcomes and about enrichment, under Spec.   *)
(***************************************************************************)
\* a step of process_batch or of the interactive arm in which the scanner
\* process was started
ScanStep ==
    /\ pc \in {"batches", "interactive"}
    /\ last'.scanner \in ScannerRan
    /\ pc = "batches" => (pos' = pos + 1 \/ files' # files)

Scanned == repos'[last'.id]

C28_Step ==
    ScanStep =>
        /\ last'.scanner = "exit0"
              => /\ Scanned["secrets_found"] = 0
                 /\ Scanned["report_path"] = NonePath
                 /\ Scanned["scanned"] = last'.target
        /\ last'.scanner = "exit3"
              => /\ Scanned["secrets_found"] \in 0..MaxFindings
                 /\ Scanned["report_path"] = ReportPath(Scanned)
                 /\ Scanned["scanned"] = last'.target
                 /\ last'.id \in dirty_repos'
        /\ last'.scanner = "failed"
              => /\ ScanState(Scanned) = ScanState(repos[last'.id])
                 /\ dirty_repos' = dirty_repos

\* C28: every call of gitleaksScanRepo that starts the scanner ends in one
\* of three ways by the exit code: 0 sets secrets_found 0, report_path none
\* and scanned to the branch; 3 sets the count, the report file and
\* scanned, and puts the repository into the dirty set; any other code
\* raises and leaves the three fields and the dirty set as they were
C28_ExitCodeOutcomes == [][C28_Step]_vars


\* the fields a backend's enrichRepo fills
EnrichFields ==
    {"contact_name", "contact_mail", "latest_branch", "default_branch"}

\* C29: when the backend's enrichment fails, enrichRepoData returns (the
\* repository's pass goes on) and contact_name, contact_mail, latest_branch
\* and default_branch are what they were before the call
C29_EnrichFailureKeepsFields ==
    (result.state = "done" /\ result.outcome # "ok")
        => /\ ~result.raised
           /\ \A i \in Keys(current) : \A f \in EnrichFields :
                 result.value.m[i][f] = current.m[i][f]


(***************************************************************************)
(* When getData fetches, under Spec.                                       *)
(***************************************************************************)
\* the cache file is absent, unreadable, of another data_version, or holds
\* no entity
CacheUnusable(file) ==
    \/ file.kind = "absent"
    \/ file.kind = "partial"
    \/ file.kind = "yaml" /\ file.ver # data_version
    \/ file.kind = "yaml" /\ DOMAIN file.data = {}

C30_Step ==
    pc = "getData" =>
        LET t == config.backends_chosen[bidx]
            needed == CacheUnusable(files[t]) \/ config.updateinfo
        IN  /\ t \in fetched' <=> needed
            /\ ~needed
                 => /\ files' = files
                    /\ \A i \in DOMAIN files[t].data :
                          repos'[i] = files[t].data[i]

\* C30: in every run, getData calls a backend's fetchAllRepos exactly when
\* that backend's cache file is absent, unreadable, of another version or
\* empty, or updateinfo is set; otherwise the file is left alone and its
\* entities go into the merged set as they are
C30_FetchIffNoCacheOrUpdate == [][C30_Step]_vars

\* a second run that went through getData on the cache alone, without a
\* fetch
C30_Witness ==
    /\ runs = 2
    /\ pc = "main"
    /\ fetched = {}
    /\ Len(order) > 0


(***************************************************************************)
(* Further claims about cloneRepo on an existing folder, under SpecClone.  *)
(***************************************************************************)
\* the folder is a working copy with .git
ValidFolder == TheFolder.state = "git"

\* the call ran `git fetch` and the fetch failed
FetchFailed ==
    /\ HasOp(last'.ops, "fetch")
    /\ ~FetchWorks(last'.target, last'.git)

C31_Step ==
    (Called /\ ValidFolder /\ FetchFailed)
        => /\ last'.sync = "raised"
           /\ ~HasOp(last'.ops, "checkout")
           /\ ~HasOp(last'.ops, "reset")
           /\ FolderAfter.active = TheFolder.active
           /\ FolderAfter.tree = TheFolder.tree
           /\ FolderAfter.heads = TheFolder.heads

\* C31: on an existing working copy, a failed fetch of the target branch
\* ends cloneRepo with an error before any checkout or reset; the branch
\* checked out and the content of the work tree are what they were
C31_FetchFailureKeepsCheckout == [][C31_Step]_vars

\* a call on a working copy of another branch ended in the fetch handler
C31_Witness ==
    /\ last.error = "fetch"
    /\ last.git = "fetch_fails"
    /\ TheFolder.state = "git"
    /\ TheFolder.tree # None
    /\ TheFolder.active # last.target


\* the call did no git command and returned normally
NoOpSuccess == last'.ops = <<>> /\ last'.sync = "ok"

\* update is disabled and the branch checked out is the target branch
OnTarget == ~config.update_repos /\ TheFolder.active = last'.target

\* fetch, switch, hard reset, all three done
Updated ==
    /\ last'.ops = <<"fetch", "checkout", "reset">>
    /\ last'.sync = "ok"
    /\ FolderAfter.active = last'.target
    /\ FolderAfter.tree = last'.target

\* C32 as stated: on an existing working copy cloneRepo does nothing and
\* returns success if and only if update is disabled and the checked-out
\* branch is the target branch; in every other case it fetches the target
\* branch, switches to it and hard-resets to the fetched ref
C32_NoOpIffOnTarget ==
    [][(Called /\ ValidFolder)
          => /\ NoOpSuccess <=> OnTarget
             /\ ~OnTarget => Updated]_vars

\* the folder's origin is the entity's http_link
OriginMatches ==
    /\ Has(TheRepo, "http_link")
    /\ TheFolder.origin = TheRepo["http_link"]

C32_Step ==
    (Called /\ ValidFolder)
        => /\ NoOpSuccess <=> (TargetResolved /\ OnTarget)
           /\ last'.sync = "ok" => (NoOpSuccess \/ Updated)
           /\ (TargetResolved /\ ~OnTarget /\ OriginMatches)
                 => /\ HasOp(last'.ops, "fetch")
                    /\ (FetchWorks(last'.target, last'.git)
                           /\ last'.git = "ok") => Updated
           /\ (~NoOpSuccess /\ ~HasOp(last'.ops, "fetch"))
                 => /\ last'.sync = "raised"
                    /\ wc' = wc

\* C32 amended: on an existing working copy of an entity with a default
\* branch and a readable target branch, cloneRepo does nothing and returns
\* success if and only if update is disabled and the checked-out branch is
\* the target branch; otherwise it raises without touching the folder (no
\* default branch, no target field, origin missing or different) or
\* fetches the target branch and, when fetch, checkout and reset succeed,
\* has switched to it and hard-reset to the fetched ref; it returns
\* success in no other way
C32_NoOpIffOnTargetElseUpdateOrError == [][C32_Step]_vars

\* a call with update disabled switched a working copy of main to dev
C32_Witness ==
    /\ ~config.update_repos
    /\ last.ops = <<"fetch", "checkout", "reset">>
    /\ last.sync = "ok"
    /\ last.target = "dev"
    /\ TheFolder.active = "dev"
    /\ runs >= 2


(***************************************************************************)
(* Claims about the batch scheduler, under Spec.                           *)
(***************************************************************************)
\* the repositories in scope of the run, in the order of the batches
InScope == Flat(batches)

\* a batch run is over and was not interrupted by the operator
BatchRunOver ==
    /\ pc = "idle"
    /\ ~config.interactive
    /\ exit.why \in {"completed", "process_batch"}

\* C33: in a batch run the repositories in scope are processed one after
\* the other in the order of the filtered set, and the progress counter is
\* advanced once for each, whatever the outcome; when the run is over the
\* counter is the number of repositories in scope
C33_EveryRepositoryCountedOnce ==
    /\ pc = "batches" => (bar = pos /\ pos <= Len(InScope))
    /\ BatchRunOver => (bar = Len(InScope) /\ pos = Len(InScope))


\* a pass in which cloneRepo was called and raised
SyncFailed ==
    /\ pc \in {"batches", "interactive"}
    /\ last'.sync = "raised"
    /\ pc = "batches" => pos' = pos + 1

C34_Step ==
    SyncFailed
        => /\ last'.scanner \notin ScannerCalled
           /\ ScanState(repos'[last'.id]) = ScanState(repos[last'.id])
           /\ files' = files
           /\ dirty_repos' = dirty_repos

\* C34: when cloneRepo raises for a repository (clone, fetch, checkout or
\* reset failure, folder without .git, origin mismatch), the pass does not
\* call the scanner and leaves the repository's scanned, secrets_found and
\* report_path as they were, in memory and in the cache file
C34_FailedSyncNotScanned == [][C34_Step]_vars

\* the synchronization of a repository scanned in an earlier run failed
C34_Witness ==
    /\ runs = 2
    /\ last.sync = "raised"
    /\ last.id # 0
    /\ last.pre_scanned \in Branches
    /\ repos[last.id]["scanned"] = last.pre_scanned
    /\ ValidStore(files[last.type])
    /\ last.id \in DOMAIN files[last.type].data
    /\ files[last.type].data[last.id]["scanned"] = last.pre_scanned


\* the working copy the scanner was run on
ScannedFolder == wc'[Folder(Scanned)]

C35_Step ==
    (ScanStep /\ last'.scanner \in {"exit0", "exit3"})
        => /\ Scanned["scanned"] = last'.target
           /\ ScannedFolder.state = "git"
           /\ ScannedFolder.active = Scanned["scanned"]
           /\ ScannedFolder.tree = Scanned["scanned"]

\* C35: whenever a scan sets a repository's scanned field to a branch, the
\* working copy the scanner ran on had that branch checked out with the
\* content fetched from origin, over any sequence of runs and any flags
C35_ScannedBranchWasCheckedOut == [][C35_Step]_vars


(***************************************************************************)
(* The token and persisted state, under SpecToken.                         *)
(***************************************************************************)
\* the remote URLs in the git configuration of the working copies
RemoteUrls(c) == [f \in FolderSet |-> c.wc[f].origin]

\* the token is the value of a field of an entity in a cache file, or the
\* remote URL of a working copy
TokenPersisted(c) ==
    \/ \E t \in BackendNames : \E i \in DOMAIN c.files[t].data :
          \E f \in Fields \ (IntFields \cup PathFields) :
              c.files[t].data[i][f] = c.token
    \/ \E f \in FolderSet : c.wc[f].origin = c.token

\* C36: two installations that differ only in the backend token have, after
\* the same steps, the same cache files and the same remote URL in every
\* working copy, the token is in neither, and no helper script with the
\* token is left in the temp folder
C36_TokenNotPersisted ==
    /\ current.token # new.token
    /\ current.files = new.files
    /\ RemoteUrls(current) = RemoteUrls(new)
    /\ ~TokenPersisted(current)
    /\ ~TokenPersisted(new)
    /\ current.tmp = {} /\ new.tmp = {}

\* both installations cloned a repository with their token, scanned it and
\* wrote their cache
C36_Witness ==
    /\ current.token = "tokA" /\ new.token = "tokB"
    /\ \E f \in FolderSet :
          /\ current.wc[f].state = "git"
          /\ current.wc[f].origin = "http"
          /\ current.wc[f].tree \in Branches
    /\ \E i \in DOMAIN current.files["gitlab"].data :
          current.files["gitlab"].data[i]["scanned"] \in Branches


(***************************************************************************)
(* One store per backend, under Spec.                                      *)
(***************************************************************************)
\* every entity of the file is of backend t
OnlyOf(t, file) == \A i \in DOMAIN file.data : file.data[i]["type"] = t

C37_Step ==
    \A t \in BackendNames :
        files'[t] # files[t]
            => /\ OnlyOf(t, files'[t])
               /\ \A u \in BackendNames \ {t} : files'[u] = files[u]
               /\ pc = "getData" => t = config.backends_chosen[bidx]
               /\ pc \in {"batches", "interactive"} => t = last'.type

\* C37: every write by getData or persistState goes to the file of one
\* backend, the backend being fetched or the backend of the repository
\* being persisted; the file then holds entities of that backend only and
\* the other backends' files are as they were
C37_OneStorePerBackend == [][C37_Step]_vars

\* both backends' stores are written and a pass has persisted a repository
\* while cache['repos'] held entities of both backends
C37_Witness ==
    /\ \A t \in BackendNames :
          ValidStore(files[t]) /\ DOMAIN files[t].data # {}
    /\ last.persist = "ok"
    /\ \E i, j \in DOMAIN repos : repos[i]["type"] # repos[j]["type"]


====
